---- MODULE Spec2Model ----
(***************************************************************************)
(* Verification model of the fretboard trainer (fretboard.js).             *)
(*                                                                         *)
(* Number representation.  The note mapper works on frequency ratios:      *)
(* every frequency it handles goes through Math.log2 or Math.pow(2, .).    *)
(* A positive JavaScript number x is therefore kept on a logarithmic grid, *)
(* as the integer  p = round(LogScale * log2(x))  with LogScale grid steps *)
(* per octave (one step = 1/1000 cent).  On that grid a division is a      *)
(* subtraction, k*Math.log2 and Math.pow(2, a/b) are exact, and the order  *)
(* of two numbers is the order of their grid positions.  The results of    *)
(* k*Math.log2 (cents, semitones) and the tolerance are ordinary linear    *)
(* fixed-point numbers with LinScale units per 1.  The values that are not *)
(* positive finite numbers (0, negatives, NaN, +-Infinity, null,           *)
(* undefined) are kept as tagged values with JavaScript's rules.           *)
(***************************************************************************)
EXTENDS Integers, Sequences, FiniteSets, TLC

\* grid steps per octave on the logarithmic scale (1200 cents * 1000)
LogScale == 1200000
\* fixed-point units per 1 on the linear scale: one unit of 12 * log2(x)
\* (a semitone) is LogScale / 12 grid steps
LinScale == LogScale \div 12

\* ---- JavaScript values ----
Pos(p) == [t |-> "pos", p |-> p]
Neg(p) == [t |-> "neg", p |-> p]
Lin(v) == [t |-> "lin", p |-> v]
Zero == [t |-> "zero", p |-> 0]
JSNaN == [t |-> "nan", p |-> 0]
PosInf == [t |-> "inf", p |-> 0]
NegInf == [t |-> "-inf", p |-> 0]
JSNull == [t |-> "null", p |-> 0]
JSUndefined == [t |-> "undefined", p |-> 0]

\* ToNumber in a frequency (logarithmic) context: null -> 0, undefined -> NaN
ToNumLog(x) ==
    IF x.t = "null" THEN Zero
    ELSE IF x.t = "undefined" THEN JSNaN
    ELSE x

\* ToNumber in a linear context
ToNumLin(x) ==
    IF x.t = "null" THEN Lin(0)
    ELSE IF x.t = "undefined" THEN JSNaN
    ELSE x

\* ToBoolean(x) is false: the operand of `!x` that makes it true
Falsy(x) == x.t \in {"zero", "nan", "null", "undefined"} \/ (x.t = "lin" /\ x.p = 0)

\* sign of a number on the logarithmic scale
Sgn(x) == IF x.t \in {"pos", "inf"} THEN 1 ELSE IF x.t \in {"neg", "-inf"} THEN 0 - 1 ELSE 0

IsInfinite(x) == x.t \in {"inf", "-inf"}

\* a / b on the logarithmic scale (a zero divisor is +0)
Div(a, b) ==
    LET x == ToNumLog(a)
        y == ToNumLog(b)
        sy == IF Sgn(y) < 0 THEN 0 - 1 ELSE 1
    IN  IF x.t = "nan" \/ y.t = "nan" THEN JSNaN
        ELSE IF IsInfinite(x) THEN (IF IsInfinite(y) THEN JSNaN
                                    ELSE IF Sgn(x) * sy > 0 THEN PosInf ELSE NegInf)
        ELSE IF IsInfinite(y) THEN Zero
        ELSE IF y.t = "zero" THEN (IF x.t = "zero" THEN JSNaN
                                   ELSE IF Sgn(x) > 0 THEN PosInf ELSE NegInf)
        ELSE IF x.t = "zero" THEN Zero
        ELSE IF Sgn(x) * sy > 0 THEN Pos(x.p - y.p) ELSE Neg(x.p - y.p)

\* a * b on the logarithmic scale, for finite non-zero a and b
Mul(a, b) == IF Sgn(a) * Sgn(b) > 0 THEN Pos(a.p + b.p) ELSE Neg(a.p + b.p)

\* k * Math.log2(x), k a positive multiple of 12: a linear number
KLog2(k, x) ==
    LET y == ToNumLog(x)
    IN  IF y.t = "pos" THEN Lin((k \div 12) * y.p)
        ELSE IF y.t = "zero" THEN NegInf
        ELSE IF y.t = "inf" THEN PosInf
        ELSE JSNaN

\* Math.pow(2, a / b) for integers a and b, b dividing LogScale
Pow2Div(a, b) == Pos(a * (LogScale \div b))

\* Math.abs on the linear scale
MathAbs(x) ==
    LET y == ToNumLin(x)
    IN  IF y.t = "lin" THEN Lin(IF y.p < 0 THEN 0 - y.p ELSE y.p)
        ELSE IF IsInfinite(y) THEN PosInf
        ELSE JSNaN

\* rank of a linear number among -Infinity < finite < +Infinity
LinRank(x) == IF x.t = "-inf" THEN 0 ELSE IF x.t = "inf" THEN 2 ELSE 1

\* a <= b on the linear scale (false as soon as one side is NaN)
LinLeq(a, b) ==
    LET x == ToNumLin(a)
        y == ToNumLin(b)
    IN  IF x.t = "nan" \/ y.t = "nan" THEN FALSE
        ELSE IF LinRank(x) # LinRank(y) THEN LinRank(x) < LinRank(y)
        ELSE IF x.t = "lin" THEN x.p <= y.p
        ELSE TRUE

\* rank of a number on the logarithmic scale:
\* -Infinity < negatives < 0 < positives < +Infinity
LogRank(x) ==
    IF x.t = "-inf" THEN 0
    ELSE IF x.t = "neg" THEN 1
    ELSE IF x.t = "zero" THEN 2
    ELSE IF x.t = "pos" THEN 3
    ELSE 4

\* a < b on the logarithmic scale (false as soon as one side is NaN)
LogLt(a, b) ==
    LET x == ToNumLog(a)
        y == ToNumLog(b)
    IN  IF x.t = "nan" \/ y.t = "nan" THEN FALSE
        ELSE IF LogRank(x) # LogRank(y) THEN LogRank(x) < LogRank(y)
        ELSE IF x.t = "pos" THEN x.p < y.p
        ELSE IF x.t = "neg" THEN x.p > y.p
        ELSE FALSE

\* a > b on the logarithmic scale
LogGt(a, b) == LogLt(b, a)

\* ---- numeric literals of fretboard.js on the logarithmic grid ----
\* round(LogScale * log2(x)) for each literal x
Hz20 == Pos(5186314)
Hz5000 == Pos(14745255)
Hz440 == Pos(10537632)

\* ---- fretboard.js: data ----
NOTE_NAMES == <<"C", "C#", "D", "D#", "E", "F", "F#", "G", "G#", "A", "A#", "B">>

\* frequency: 82.41, 110.00, 146.83, 196.00, 246.94, 329.63
OPEN_STRINGS ==
    [s \in 1..6 |->
        CASE s = 6 -> [note |-> "E", octave |-> 2, frequency |-> Pos(7637697), midi |-> 40]
          [] s = 5 -> [note |-> "A", octave |-> 2, frequency |-> Pos(8137632), midi |-> 45]
          [] s = 4 -> [note |-> "D", octave |-> 3, frequency |-> Pos(8637604), midi |-> 50]
          [] s = 3 -> [note |-> "G", octave |-> 3, frequency |-> Pos(9137652), midi |-> 55]
          [] s = 2 -> [note |-> "B", octave |-> 3, frequency |-> Pos(9537620), midi |-> 59]
          [] s = 1 -> [note |-> "E", octave |-> 4, frequency |-> Pos(10037644), midi |-> 64]]

\* JavaScript's % on integers: the remainder takes the sign of the dividend
JsRem(a, b) == IF a >= 0 THEN a % b ELSE 0 - ((0 - a) % b)

\* FretPosition with the octave taken as floor(midiNote / 12), the -1 forgotten
FretPosition_OctaveOffByOne(string, fret) ==
    LET openString == OPEN_STRINGS[string]
        midiNote == openString.midi + fret
        noteIndex == JsRem(midiNote, 12)
        octave == midiNote \div 12
        frequency == Mul(Hz440, Pow2Div(midiNote - 69, 12))
    IN  [string |-> string, fret |-> fret, note |-> NOTE_NAMES[noteIndex + 1],
         octave |-> octave, frequency |-> frequency, midiNote |-> midiNote]

\* FretPosition with the frequency stepped up from the tabulated open-string
\* frequency instead of being derived from the MIDI number
FretPosition_FromTable(string, fret) ==
    LET openString == OPEN_STRINGS[string]
        midiNote == openString.midi + fret
        noteIndex == JsRem(midiNote, 12)
        octave == (midiNote \div 12) - 1
        frequency == Mul(openString.frequency, Pow2Div(fret, 12))
    IN  [string |-> string, fret |-> fret, note |-> NOTE_NAMES[noteIndex + 1],
         octave |-> octave, frequency |-> frequency, midiNote |-> midiNote]

\* FretPosition with the frequency taken from the open string's MIDI number,
\* the fret left out
FretPosition_FretIgnored(string, fret) ==
    LET openString == OPEN_STRINGS[string]
        midiNote == openString.midi + fret
        noteIndex == JsRem(midiNote, 12)
        octave == (midiNote \div 12) - 1
        frequency == Mul(Hz440, Pow2Div(openString.midi - 69, 12))
    IN  [string |-> string, fret |-> fret, note |-> NOTE_NAMES[noteIndex + 1],
         octave |-> octave, frequency |-> frequency, midiNote |-> midiNote]

\* the body of the inner loop of generateFretboard: the position pushed
FretPosition(string, fret) ==
    LET openString == OPEN_STRINGS[string]
        midiNote == openString.midi + fret
        noteIndex == JsRem(midiNote, 12)
        octave == (midiNote \div 12) - 1
        frequency == Mul(Hz440, Pow2Div(midiNote - 69, 12))
    IN  [string |-> string,
         fret |-> fret,
         note |-> NOTE_NAMES[noteIndex + 1],
         octave |-> octave,
         frequency |-> frequency,
         midiNote |-> midiNote]

\* ---- fretboard.js: functions ----
\* x + n for a linear number x and an integer literal n
LinAdd(x, n) == IF x.t = "lin" THEN Lin(x.p + n * LinScale) ELSE x

\* Math.round of a finite linear number: the nearest integer, halves upwards
MathRound(x) == (x.p + (LinScale \div 2)) \div LinScale

\* Math.floor of a finite linear number
MathFloor(x) == x.p \div LinScale

\* the note record frequencyToNote builds from a MIDI number
NoteRecord(midiNote) ==
    LET noteIndex == JsRem(JsRem(midiNote, 12) + 12, 12)
    IN  [kind |-> "note", note |-> NOTE_NAMES[noteIndex + 1], midiNote |-> midiNote,
         octave |-> (midiNote \div 12) - 1, isNaN |-> FALSE]

NullResult == [kind |-> "null", note |-> "undefined", midiNote |-> 0,
               octave |-> 0, isNaN |-> FALSE]

NaNNote == [kind |-> "note", note |-> "undefined", midiNote |-> 0,
            octave |-> 0, isNaN |-> TRUE]

\* frequencyToNote with the range limits themselves rejected (<=, >=)
frequencyToNote_OpenRange(freq) ==
    IF ~LogGt(freq, Hz20) \/ ~LogLt(freq, Hz5000) THEN NullResult
    ELSE NoteRecord(MathRound(LinAdd(KLog2(12, Div(freq, Hz440)), 69)))

\* frequencyToNote with 60 for the MIDI number of the reference pitch
frequencyToNote_WrongReference(freq) ==
    IF LogLt(freq, Hz20) \/ LogGt(freq, Hz5000) THEN NullResult
    ELSE LET semis == LinAdd(KLog2(12, Div(freq, Hz440)), 60)
         IN  IF semis.t # "lin" THEN NaNNote ELSE NoteRecord(MathRound(semis))

\* frequencyToNote with Math.floor for Math.round
frequencyToNote_Floor(freq) ==
    IF LogLt(freq, Hz20) \/ LogGt(freq, Hz5000) THEN NullResult
    ELSE LET semis == LinAdd(KLog2(12, Div(freq, Hz440)), 69)
         IN  IF semis.t # "lin" THEN NaNNote ELSE NoteRecord(MathFloor(semis))

frequencyToNote(freq) ==
    IF LogLt(freq, Hz20) \/ LogGt(freq, Hz5000) THEN NullResult
    ELSE LET semis == LinAdd(KLog2(12, Div(freq, Hz440)), 69)
         IN  IF semis.t # "lin" THEN NaNNote ELSE NoteRecord(MathRound(semis))

\* the default value of the parameter toleranceCents
DefaultTolerance == Lin(50 * LinScale)

\* a < b on the linear scale
LinLt(a, b) ==
    LET x == ToNumLin(a)
        y == ToNumLin(b)
    IN  IF x.t = "nan" \/ y.t = "nan" THEN FALSE ELSE ~LinLeq(y, x)

\* isNoteMatch with Math.abs left out
isNoteMatch_NoAbs(detectedFreq, targetFreq, toleranceCents) ==
    LET tolerance == IF toleranceCents.t = "undefined" THEN DefaultTolerance
                     ELSE toleranceCents
    IN  IF Falsy(detectedFreq) \/ LogLt(detectedFreq, Hz20) THEN FALSE
        ELSE LinLeq(KLog2(1200, Div(detectedFreq, targetFreq)), tolerance)

\* isNoteMatch with < for <=
isNoteMatch_Strict(detectedFreq, targetFreq, toleranceCents) ==
    LET tolerance == IF toleranceCents.t = "undefined" THEN DefaultTolerance
                     ELSE toleranceCents
    IN  IF Falsy(detectedFreq) \/ LogLt(detectedFreq, Hz20) THEN FALSE
        ELSE LinLt(MathAbs(KLog2(1200, Div(detectedFreq, targetFreq))), tolerance)

\* isNoteMatch with the 20 Hz floor left out
isNoteMatch_NoFloor(detectedFreq, targetFreq, toleranceCents) ==
    LET tolerance == IF toleranceCents.t = "undefined" THEN DefaultTolerance
                     ELSE toleranceCents
    IN  IF Falsy(detectedFreq) THEN FALSE
        ELSE LinLeq(MathAbs(KLog2(1200, Div(detectedFreq, targetFreq))), tolerance)

isNoteMatch(detectedFreq, targetFreq, toleranceCents) ==
    LET tolerance == IF toleranceCents.t = "undefined" THEN DefaultTolerance
                     ELSE toleranceCents
    IN  IF Falsy(detectedFreq) \/ LogLt(detectedFreq, Hz20) THEN FALSE
        ELSE LET centsDifference == KLog2(1200, Div(detectedFreq, targetFreq))
             IN  LinLeq(MathAbs(centsDifference), tolerance)

\* calculateCentsOffset with the two frequencies exchanged
calculateCentsOffset_Swapped(detectedFreq, targetFreq) ==
    KLog2(1200, Div(targetFreq, detectedFreq))

\* FretboardTrainer.calculateCentsOffset
calculateCentsOffset(detectedFreq, targetFreq) ==
    KLog2(1200, Div(detectedFreq, targetFreq))

\* ---- state ----
VARIABLES
    fretboard,   \* generateFretboard: the local array being filled
    string,      \* generateFretboard: outer loop counter
    fret,        \* generateFretboard: inner loop counter
    FRETBOARD,   \* the module constant, set when generateFretboard returns
    pc,          \* "generate" while the script is loading, then "ready"
    call,        \* the last call made through the exported functions
    window,      \* the page: window.app (the FretboardTrainer) and its detector,
                 \* the queue of setTimeout callbacks, the detector.start()
                 \* calls still awaiting the microphone, and localStorage
    now          \* Date.now(), in ms since the page was opened

vars == <<fretboard, string, fret, FRETBOARD, pc, call, window, now>>

NoCall == [op |-> "none", d |-> JSUndefined, t |-> JSUndefined,
           c |-> JSUndefined, ret |-> JSUndefined]

\* ---- inputs ----
\* number of grid steps probed on each side of a boundary
MaxGridSteps == 1

\* grid steps per cent
CentSteps == LogScale \div 1200

\* the frequency k grid steps above f
Shift(f, k) == Pos(f.p + k)

GridNear == (0 - MaxGridSteps)..MaxGridSteps

\* the literals 10 and 6000 used by the tests: round(LogScale * log2(x))
Hz10 == Pos(3986314)
Hz6000 == Pos(15060896)

\* values that are not positive finite numbers
OddValues == {JSNull, JSUndefined, JSNaN, Zero, Neg(Hz440.p)}

\* tolerances in cents: the difficulty levels, 0, a negative one, and the
\* values ToNumber treats specially
ToleranceInputs ==
    {Lin(n * LinScale) : n \in {0 - 1, 0, 10, 50, 100}} \cup {JSUndefined, JSNull, JSNaN}

\* distances, in grid steps, of a detection from its target
OffsetInputs ==
    {s * (n * CentSteps + g) : s \in {0 - 1, 1}, n \in {0, 10, 20, 50, 100}, g \in GridNear}

\* targets: the open and 12th-fret positions, the tuning table, the range
\* limits, the reference pitch, and the values that are not frequencies
TargetInputs ==
    {FRETBOARD[i].frequency : i \in {j \in DOMAIN FRETBOARD : FRETBOARD[j].fret \in {0, 12}}}
        \cup {OPEN_STRINGS[s].frequency : s \in 1..6}
        \cup {Hz20, Hz440, Hz5000} \cup OddValues

BoundaryInputs ==
    {Shift(Hz20, g) : g \in GridNear} \cup {Shift(Hz5000, g) : g \in GridNear}
        \cup {Hz10, Hz6000}

DetectedInputs(target) ==
    (IF target.t = "pos" THEN {Shift(target, k) : k \in OffsetInputs} ELSE {Hz440})
        \cup BoundaryInputs \cup OddValues

\* frequencies handed to frequencyToNote: the fretboard, the tuning table,
\* the range limits and the half-semitone points where Math.round switches
NoteInputs ==
    {FRETBOARD[i].frequency : i \in DOMAIN FRETBOARD} \cup TargetInputs \cup BoundaryInputs
        \cup {Shift(Hz440, 50 * CentSteps * h + g) : h \in {0 - 1, 1}, g \in GridNear}

\* ---- new FretboardTrainer() ----
\* The fields the model keeps are those the handlers read.  The DOM is left
\* out, except the text of the calibration status line; fields that are only
\* written (calibrationStep, lastDetectedNote) are left out.
\* a time in ms
Ms(n) == [t |-> "ms", p |-> n]

\* {}: no offset stored for any string
NoOffsets == [s \in 1..6 |-> JSUndefined]

\* localStorage with neither key set
EmptyStorage ==
    [fretboardTrainerCalibration |-> JSNull, fretboardTrainerTolerance |-> JSNull]

\* parseInt(saved, 10) for the decimal text of a non-negative number
ParseInt(saved) ==
    IF saved.t = "lin" THEN Lin((saved.p \div LinScale) * LinScale) ELSE JSNaN

loadCalibration(storage) ==
    IF storage.fretboardTrainerCalibration = JSNull THEN NoOffsets
    ELSE storage.fretboardTrainerCalibration.offsets

loadTolerance(storage) ==
    IF storage.fretboardTrainerTolerance = JSNull THEN Lin(50 * LinScale)
    ELSE ParseInt(storage.fretboardTrainerTolerance)

\* the page while its scripts load: no trainer yet, localStorage not yet read
PageLoading ==
    [app |-> JSUndefined, detector |-> JSUndefined, timers |-> <<>>,
     starting |-> <<>>, localStorage |-> JSUndefined]

\* the page after DOMContentLoaded, with `storage` found in localStorage;
\* currentCalibrationString, which the constructor leaves unset, is 0.
\* frames counts the requestAnimationFrame callbacks of detectPitch that are
\* pending; mediaDevices tells whether navigator.mediaDevices.getUserMedia
\* exists; returned is what the last start() called from outside the trainer
\* resolved to
TrainerConstructed(storage) ==
    [app |-> [isRunning |-> FALSE,
              mode |-> "audio",
              currentChallenge |-> JSNull,
              score |-> 0,
              correctStreak |-> 0,
              correctStartTime |-> JSNull,
              isCalibrating |-> FALSE,
              currentCalibrationString |-> 0,
              calibrationSamples |-> <<>>,
              calibrationStartTime |-> JSNull,
              calibrationOffsets |-> loadCalibration(storage),
              calibrationStatus |-> "",
              tolerance |-> loadTolerance(storage),
              statusIndicator |-> ""],
     detector |-> [isListening |-> FALSE, audioContext |-> JSNull,
                   mediaStream |-> JSNull],
     timers |-> <<>>,
     starting |-> <<>>,
     frames |-> 0,
     mediaDevices |-> TRUE,
     returned |-> "",
     localStorage |-> storage]

\* ---- script load: const FRETBOARD = generateFretboard() ----
ScriptLoad ==
    /\ fretboard = <<>>
    /\ string = 1
    /\ fret = 0
    /\ FRETBOARD = <<>>
    /\ pc = "generate"
    /\ call = NoCall

Init ==
    /\ ScriptLoad
    /\ window = PageLoading
    /\ now = 0

\* one pass of the inner loop body
GenerateFretboardStep ==
    /\ pc = "generate"
    /\ string <= 6
    /\ fretboard' = Append(fretboard, FretPosition(string, fret))
    /\ IF fret < 12
       THEN fret' = fret + 1 /\ string' = string
       ELSE fret' = 0 /\ string' = string + 1
    /\ UNCHANGED <<FRETBOARD, pc, call, window, now>>

\* return fretboard; the module exports are then in place
GenerateFretboardReturn ==
    /\ pc = "generate"
    /\ string > 6
    /\ FRETBOARD' = fretboard
    /\ pc' = "ready"
    /\ UNCHANGED <<fretboard, string, fret, call, window, now>>

\* ---- calls of the exported functions ----
CallIsNoteMatch ==
    /\ pc = "ready"
    /\ call.op = "none"
    /\ \E t \in TargetInputs : \E d \in DetectedInputs(t) : \E c \in ToleranceInputs :
           call' = [op |-> "isNoteMatch", d |-> d, t |-> t, c |-> c,
                    ret |-> isNoteMatch(d, t, c)]
    /\ UNCHANGED <<fretboard, string, fret, FRETBOARD, pc, window, now>>

CallFrequencyToNote ==
    /\ pc = "ready"
    /\ call.op = "none"
    /\ \E f \in NoteInputs :
           call' = [op |-> "frequencyToNote", d |-> f, t |-> JSUndefined,
                    c |-> JSUndefined, ret |-> frequencyToNote(f)]
    /\ UNCHANGED <<fretboard, string, fret, FRETBOARD, pc, window, now>>

CallCalculateCentsOffset ==
    /\ pc = "ready"
    /\ call.op = "none"
    /\ \E t \in TargetInputs : \E d \in DetectedInputs(t) :
           call' = [op |-> "calculateCentsOffset", d |-> d, t |-> t,
                    c |-> JSUndefined, ret |-> calculateCentsOffset(d, t)]
    /\ UNCHANGED <<fretboard, string, fret, FRETBOARD, pc, window, now>>

\* the caller has used the returned value and drops it
CallReturn ==
    /\ pc = "ready"
    /\ call.op # "none"
    /\ call' = NoCall
    /\ UNCHANGED <<fretboard, string, fret, FRETBOARD, pc, window, now>>

\* the note mapper: script load, then calls of frequencyToNote
NextNotes ==
    \/ GenerateFretboardStep
    \/ GenerateFretboardReturn
    \/ CallFrequencyToNote
    \/ CallReturn

SpecNotes == Init /\ [][NextNotes]_vars

\* the match evaluator: script load, then calls of isNoteMatch and of
\* calculateCentsOffset
NextMatch ==
    \/ GenerateFretboardStep
    \/ GenerateFretboardReturn
    \/ CallIsNoteMatch
    \/ CallCalculateCentsOffset
    \/ CallReturn

SpecMatch == Init /\ [][NextMatch]_vars

\* ---- properties ----
\* linear units per grid step of a cents difference
CentUnits == LinScale \div CentSteps

AbsInt(n) == IF n < 0 THEN 0 - n ELSE n

\* 1200 * log2(d / t) for two positive frequencies, in linear units
CentsApart(d, t) == (d.p - t.p) * CentUnits

\* a positive frequency of at least 20 Hz
AtLeast20(f) == f.t = "pos" /\ f.p >= Hz20.p

\* the detection as far below the target as d is above it (and conversely)
Mirror(d, t) == Pos(2 * t.p - d.p)

\* C1: for a detection d >= 20 Hz, a target t > 0 and a tolerance c >= 0,
\* isNoteMatch(d, t, c) is true exactly when |1200*log2(d/t)| <= c, the
\* boundary included; and it gives the same answer for the detection that
\* lies as many cents on the other side of the target (both being >= 20 Hz).
C1_MatchIffWithinTolerance ==
    (/\ call.op = "isNoteMatch"
     /\ AtLeast20(call.d)
     /\ call.t.t = "pos"
     /\ call.c.t = "lin"
     /\ call.c.p >= 0)
    => /\ call.ret = (AbsInt(CentsApart(call.d, call.t)) <= call.c.p)
       /\ AtLeast20(Mirror(call.d, call.t))
            => isNoteMatch(Mirror(call.d, call.t), call.t, call.c) = call.ret

\* a detection exactly 50 cents flat of a fretboard target, accepted at 50 cents
C1_Witness ==
    /\ call.op = "isNoteMatch"
    /\ call.t = FRETBOARD[1].frequency
    /\ call.d = Shift(call.t, 0 - 50 * CentSteps)
    /\ call.c = Lin(50 * LinScale)
    /\ call.ret = TRUE

\* C2 as stated: isNoteMatch(f, f, c) is true for every f > 20 Hz and every
\* tolerance value c whatsoever.
C2_ReflexiveAnyTolerance ==
    (/\ call.op = "isNoteMatch"
     /\ call.d.t = "pos"
     /\ call.d.p > Hz20.p
     /\ call.t = call.d)
    => call.ret = TRUE

\* C2 amended: isNoteMatch(f, f, c) is true for every f > 20 Hz and every
\* tolerance c >= 0 (or omitted, the default 50 then applying), and false
\* for a negative tolerance.
C2_ReflexiveNonNegativeTolerance ==
    (/\ call.op = "isNoteMatch"
     /\ call.d.t = "pos"
     /\ call.d.p > Hz20.p
     /\ call.t = call.d)
    => /\ (call.c.t = "undefined" \/ (call.c.t = "lin" /\ call.c.p >= 0))
            => call.ret = TRUE
       /\ (call.c.t = "lin" /\ call.c.p < 0) => call.ret = FALSE

\* a frequency matched against itself with tolerance 0
C2_Witness ==
    /\ call.op = "isNoteMatch"
    /\ call.d = Hz440
    /\ call.t = Hz440
    /\ call.c = Lin(0)
    /\ call.ret = TRUE

\* a detected frequency that is missing, NaN, zero, negative or below 20 Hz
BadDetected(d) ==
    \/ d.t \in {"null", "undefined", "nan", "zero", "neg"}
    \/ d.t = "pos" /\ d.p < Hz20.p

\* C3: isNoteMatch returns false, whatever the target and the tolerance, when
\* the detected frequency is null, undefined, NaN, zero, negative or below
\* 20 Hz, and when the target frequency is NaN.
C3_InvalidInputRejected ==
    (/\ call.op = "isNoteMatch"
     /\ BadDetected(call.d) \/ call.t.t = "nan")
    => call.ret = FALSE

\* a detection one grid step under 20 Hz, against a 20 Hz target: within the
\* tolerance, and still rejected
C3_Witness ==
    /\ call.op = "isNoteMatch"
    /\ call.t = Hz20
    /\ call.d = Shift(Hz20, 0 - 1)
    /\ call.c = Lin(50 * LinScale)
    /\ call.ret = FALSE

\* C4: for positive frequencies the cents offset is 0 when detected = target,
\* > 0 when detected > target, < 0 when detected < target, and
\* offset(a, b) = -offset(b, a).
C4_CentsOffsetSigned ==
    (/\ call.op = "calculateCentsOffset"
     /\ call.d.t = "pos"
     /\ call.t.t = "pos")
    => /\ call.ret.t = "lin"
       /\ (call.d.p = call.t.p) => (call.ret.p = 0)
       /\ (call.d.p > call.t.p) => (call.ret.p > 0)
       /\ (call.d.p < call.t.p) => (call.ret.p < 0)
       /\ calculateCentsOffset(call.t, call.d) = Lin(0 - call.ret.p)

\* a detection 20 cents sharp of a fretboard target: offset +20 cents
C4_Witness ==
    /\ call.op = "calculateCentsOffset"
    /\ call.t = FRETBOARD[1].frequency
    /\ call.d = Shift(call.t, 20 * CentSteps)
    /\ call.ret = Lin(20 * LinScale)

\* a frequency of at most 20 Hz (zero and the negatives included)
AtMost20(f) == f.t \in {"zero", "neg"} \/ (f.t = "pos" /\ f.p <= Hz20.p)

\* C5 as stated: frequencyToNote returns null for every freq <= 20 and every
\* freq >= 5000, and a note named in NOTE_NAMES for every freq strictly between.
C5_NullOutsideOpenRange ==
    (call.op = "frequencyToNote")
    => /\ (AtMost20(call.d) \/ (call.d.t = "pos" /\ call.d.p >= Hz5000.p))
            => call.ret.kind = "null"
       /\ (call.d.t = "pos" /\ call.d.p > Hz20.p /\ call.d.p < Hz5000.p)
            => /\ call.ret.kind = "note"
               /\ \E i \in DOMAIN NOTE_NAMES : call.ret.note = NOTE_NAMES[i]

\* C5 amended: frequencyToNote returns null for every freq < 20 and every
\* freq > 5000, and a note named in NOTE_NAMES for every freq in the closed
\* interval [20, 5000].
C5_NullOutsideClosedRange ==
    (call.op = "frequencyToNote")
    => /\ (call.d.t \in {"zero", "neg"}
             \/ (call.d.t = "pos" /\ (call.d.p < Hz20.p \/ call.d.p > Hz5000.p)))
            => call.ret.kind = "null"
       /\ (call.d.t = "pos" /\ call.d.p >= Hz20.p /\ call.d.p <= Hz5000.p)
            => /\ call.ret.kind = "note"
               /\ \E i \in DOMAIN NOTE_NAMES : call.ret.note = NOTE_NAMES[i]

\* frequencyToNote(20) returns a note
C5_Witness ==
    /\ call.op = "frequencyToNote"
    /\ call.d = Hz20
    /\ call.ret.kind = "note"
    /\ call.ret.midiNote = 15

\* the fretboard has been generated
Loaded == pc = "ready"

\* C6: for every generated position p, frequencyToNote(p.frequency) returns
\* note = p.note, midiNote = p.midiNote and octave = p.octave.
C6_PositionRoundTrip ==
    (call.op = "frequencyToNote")
    => \A i \in DOMAIN FRETBOARD :
          (call.d = FRETBOARD[i].frequency)
          => /\ call.ret.kind = "note"
             /\ call.ret.note = FRETBOARD[i].note
             /\ call.ret.midiNote = FRETBOARD[i].midiNote
             /\ call.ret.octave = FRETBOARD[i].octave

\* frequencyToNote applied to the frequency of the last position generated
\* (string 6, fret 12: E3, MIDI 52)
C6_Witness ==
    /\ call.op = "frequencyToNote"
    /\ Len(FRETBOARD) = 78
    /\ call.d = FRETBOARD[78].frequency
    /\ call.ret = [kind |-> "note", note |-> "E", midiNote |-> 52, octave |-> 3,
                   isNaN |-> FALSE]

\* the indices of the positions of FRETBOARD at (s, f)
PositionsAt(s, f) ==
    {i \in DOMAIN FRETBOARD : FRETBOARD[i].string = s /\ FRETBOARD[i].fret = f}

\* FRETBOARD.find(p => p.string === s && p.fret === f)
PositionAt(s, f) ==
    LET found == PositionsAt(s, f)
    IN  FRETBOARD[CHOOSE i \in found : \A j \in found : i <= j]

\* C7: FRETBOARD holds exactly 78 positions, exactly one for each (string,
\* fret) in 1..6 x 0..12; every position has midiNote = OPEN_STRINGS[string].midi
\* + fret, note = NOTE_NAMES[midiNote mod 12], octave = floor(midiNote/12) - 1;
\* the fret-0 position of a string carries that string's tabulated note and octave.
C7_FretboardShape ==
    Loaded
    => /\ Len(FRETBOARD) = 78
       /\ \A s \in 1..6 : \A f \in 0..12 : Cardinality(PositionsAt(s, f)) = 1
       /\ \A i \in DOMAIN FRETBOARD :
             LET q == FRETBOARD[i]
             IN  /\ q.string \in 1..6
                 /\ q.fret \in 0..12
                 /\ q.midiNote = OPEN_STRINGS[q.string].midi + q.fret
                 /\ q.note = NOTE_NAMES[(q.midiNote % 12) + 1]
                 /\ q.octave = (q.midiNote \div 12) - 1
                 /\ (q.fret = 0) => /\ q.note = OPEN_STRINGS[q.string].note
                                    /\ q.octave = OPEN_STRINGS[q.string].octave

\* the loaded fretboard, with its first position the open 1st string, E4
C7_Witness ==
    /\ Loaded
    /\ Len(FRETBOARD) = 78
    /\ FRETBOARD[1].string = 1
    /\ FRETBOARD[1].fret = 0
    /\ FRETBOARD[1].note = "E"
    /\ FRETBOARD[1].octave = 4
    /\ FRETBOARD[1].midiNote = 64

\* C8 as stated: every position's frequency equals the reference frequency
\* tabulated for its string multiplied by 2^(fret/12); at fret 0 it equals the
\* tabulated reference frequency.
C8_FrequencyFromTable ==
    Loaded
    => \A i \in DOMAIN FRETBOARD :
          FRETBOARD[i].frequency
              = Mul(OPEN_STRINGS[FRETBOARD[i].string].frequency,
                    Pow2Div(FRETBOARD[i].fret, 12))

\* a tenth of a cent, in grid steps
TenthCent == CentSteps \div 10

\* C8 amended: every position's frequency equals 440 * 2^((midiNote - 69)/12),
\* which is the fret-0 frequency of its string multiplied by 2^(fret/12); the
\* fret-0 frequency of a string lies within 0.1 cent of the reference frequency
\* tabulated for it, and equals it for string 5 (110.00) only.
C8_FrequencyFromMidi ==
    Loaded
    => /\ \A i \in DOMAIN FRETBOARD :
             LET q == FRETBOARD[i]
             IN  /\ q.frequency = Mul(Hz440, Pow2Div(q.midiNote - 69, 12))
                 /\ q.frequency = Mul(PositionAt(q.string, 0).frequency,
                                      Pow2Div(q.fret, 12))
       /\ \A s \in 1..6 :
             LET open == PositionAt(s, 0).frequency
                 tabulated == OPEN_STRINGS[s].frequency
             IN  /\ open.t = "pos"
                 /\ AbsInt(open.p - tabulated.p) <= TenthCent
                 /\ (open = tabulated) <=> (s = 5)

\* the loaded fretboard: the open 6th string lies below the tabulated 82.41
C8_Witness ==
    /\ Loaded
    /\ PositionAt(6, 0).frequency.p < OPEN_STRINGS[6].frequency.p
    /\ PositionAt(5, 0).frequency = OPEN_STRINGS[5].frequency

\* 2^(k/12) for k = 0..11, times LinScale
SemitoneRatio ==
    <<100000, 105946, 112246, 118921, 125992, 133484,
      141421, 149831, 158740, 168179, 178180, 188775>>

\* 2^n for n >= 0
RECURSIVE TwoTo(_)
TwoTo(n) == IF n = 0 THEN 1 ELSE 2 * TwoTo(n - 1)

\* the value in Hz, in linear units, of a frequency of 1 Hz or more on the
\* logarithmic grid: octave, semitone, and a third-order series for the rest
ToHz(f) ==
    LET octave == f.p \div LogScale
        inOctave == f.p % LogScale
        semitone == inOctave \div (LogScale \div 12)
        rest == inOctave % (LogScale \div 12)
        \* y = rest * ln(2) / LogScale, times LinScale
        y == (rest * 5776) \div 100000
        series == y + ((y * y) \div (2 * LinScale))
                    + ((((y * y) \div 1000) * y) \div 60000000)
        base == SemitoneRatio[semitone + 1]
        ratio == base + ((base * series) \div LinScale)
    IN  TwoTo(octave) * ratio

\* half a hertz, in linear units
HalfHz == LinScale \div 2

\* C9: on every string the frequency strictly increases with the fret over
\* 0..12, the 12th-fret frequency is within 0.5 Hz of twice the fret-0
\* frequency, and the fret-0 frequency strictly decreases from string 1 to 6.
C9_FrequencyOrder ==
    Loaded
    => /\ \A s \in 1..6 : \A f \in 0..11 :
             LogLt(PositionAt(s, f).frequency, PositionAt(s, f + 1).frequency)
       /\ \A s \in 1..6 :
             AbsInt(ToHz(PositionAt(s, 12).frequency)
                      - 2 * ToHz(PositionAt(s, 0).frequency)) <= HalfHz
       /\ \A s \in 1..5 :
             LogGt(PositionAt(s, 0).frequency, PositionAt(s + 1, 0).frequency)

\* the loaded fretboard: the open 6th string within 0.01 Hz of 82.407 Hz and
\* its 12th fret within 0.01 Hz of 164.814 Hz
C9_Witness ==
    /\ Loaded
    /\ AbsInt(ToHz(PositionAt(6, 0).frequency) - 8240700) <= 1000
    /\ AbsInt(ToHz(PositionAt(6, 12).frequency) - 16481400) <= 1000

\* C10: for each of the six tabulated open-string reference frequencies,
\* frequencyToNote returns the note name and octave tabulated for that string;
\* frequencyToNote(440) returns A, octave 4, MIDI 69.
C10_OpenStringNotes ==
    (call.op = "frequencyToNote")
    => /\ \A s \in 1..6 :
             (call.d = OPEN_STRINGS[s].frequency)
             => /\ call.ret.kind = "note"
                /\ call.ret.note = OPEN_STRINGS[s].note
                /\ call.ret.octave = OPEN_STRINGS[s].octave
       /\ (call.d = Hz440)
             => call.ret = [kind |-> "note", note |-> "A", midiNote |-> 69,
                            octave |-> 4, isNaN |-> FALSE]

\* frequencyToNote(146.83), a reference frequency just under the exact D3
C10_Witness ==
    /\ call.op = "frequencyToNote"
    /\ call.d = OPEN_STRINGS[4].frequency
    /\ call.d.p < PositionAt(4, 0).frequency.p
    /\ call.ret.note = "D"
    /\ call.ret.octave = 3
    /\ call.ret.midiNote = 50

\* ---- getRandomChallenge ----
\* Math.random() returns k / RandomSteps for some k in 0..RandomSteps-1, a
\* value of [0, 1)
RandomSteps == 156

RandomOutcomes == 0..(RandomSteps - 1)

\* FRETBOARD[index] for a zero-based index; undefined outside the array
ArrayAt(array, index) ==
    IF index + 1 \in DOMAIN array THEN array[index + 1] ELSE JSUndefined

\* Math.round in place of Math.floor
getRandomChallenge_Round(k) ==
    LET index == (2 * k * Len(FRETBOARD) + RandomSteps) \div (2 * RandomSteps)
    IN  [index |-> index, ret |-> ArrayAt(FRETBOARD, index)]

\* getRandomChallenge() when Math.random() returns k / RandomSteps
getRandomChallenge(k) ==
    LET index == (k * Len(FRETBOARD)) \div RandomSteps
    IN  [index |-> index, ret |-> ArrayAt(FRETBOARD, index)]

CallGetRandomChallenge ==
    /\ pc = "ready"
    /\ call.op = "none"
    /\ \E k \in RandomOutcomes :
           call' = [op |-> "getRandomChallenge", d |-> k,
                    t |-> getRandomChallenge(k).index, c |-> JSUndefined,
                    ret |-> getRandomChallenge(k).ret]
    /\ UNCHANGED <<fretboard, string, fret, FRETBOARD, pc, window, now>>

\* the challenge source: script load, then calls of getRandomChallenge
NextChallenge ==
    \/ GenerateFretboardStep
    \/ GenerateFretboardReturn
    \/ CallGetRandomChallenge
    \/ CallReturn

SpecChallenge == Init /\ [][NextChallenge]_vars

\* the results getRandomChallenge can return
ChallengeResults == {getRandomChallenge(k).ret : k \in RandomOutcomes}

\* C11: every call of getRandomChallenge returns one of the 78 entries of
\* FRETBOARD (never undefined, never an index out of range), and each of the
\* 78 entries is a possible result, so all 6 strings, all 13 frets and all 12
\* note names can be returned.
C11_ChallengeFromFretboard ==
    /\ (call.op = "getRandomChallenge")
       => /\ call.t \in 0..77
          /\ call.ret # JSUndefined
          /\ call.ret = FRETBOARD[call.t + 1]
    /\ Loaded
       => /\ Len(FRETBOARD) = 78
          /\ JSUndefined \notin ChallengeResults
          /\ \A i \in 1..78 : FRETBOARD[i] \in ChallengeResults
          /\ {p.string : p \in ChallengeResults} = 1..6
          /\ {p.fret : p \in ChallengeResults} = 0..12
          /\ {p.note : p \in ChallengeResults} = {NOTE_NAMES[n] : n \in 1..12}

\* the largest outcome of Math.random() selects the last entry, string 6 fret 12
C11_Witness ==
    /\ call.op = "getRandomChallenge"
    /\ call.d = RandomSteps - 1
    /\ call.ret = FRETBOARD[78]
    /\ call.ret.string = 6
    /\ call.ret.fret = 12

\* ---- the pitch detector (audio.js) ----
\* Number representation.  A sample of the time-domain buffer is an integer
\* count of 1/SampleUnit; the difference function and the correlations are
\* sums of products of samples and stay integers.  A value stored in the
\* Float32Array yinBuffer is rounded on the store: it is kept as the nearest
\* integer count of 1/YinScale.  Everything computed from them in double
\* arithmetic is an exact quotient of two integers.
SampleUnit == 200
YinScale == 1000

\* a quotient n / d with d > 0
Rat(n, d) == [t |-> "rat", p |-> n, q |-> d]

\* a value stored in the Float32Array
F32(v) == [t |-> "f32", p |-> v]

\* n / d in double arithmetic, for integers n and d
IntDivide(n, d) ==
    IF d > 0 THEN Rat(n, d)
    ELSE IF d < 0 THEN Rat(0 - n, 0 - d)
    ELSE IF n > 0 THEN PosInf
    ELSE IF n < 0 THEN NegInf
    ELSE JSNaN

\* x < k and x > k for a number x and an integer literal k
NumLtInt(x, k) ==
    IF x.t = "rat" THEN x.p < k * x.q
    ELSE x.t = "-inf"

NumGtInt(x, k) ==
    IF x.t = "rat" THEN x.p > k * x.q
    ELSE x.t = "inf"

\* isFinite(x)
IsFinite(x) == x.t \in {"rat", "f32"}

\* a < b for two values read from the Float32Array
F32Lt(a, b) == a.t = "f32" /\ b.t = "f32" /\ a.p < b.p

RECURSIVE SumFrom(_, _, _)
\* f[lo] + ... + f[hi]
SumFrom(f, lo, hi) == IF lo > hi THEN 0 ELSE f[lo] + SumFrom(f, lo + 1, hi)

\* the constructor's settings
minFrequency == 70
maxFrequency == 1200
\* a threshold of 0.5
yinThreshold_Half == (50 * YinScale) \div 100

yinThreshold == (15 * YinScale) \div 100

\* the sum of the squared samples
SumOfSquares(buffer) ==
    SumFrom([i \in 1..Len(buffer) |-> buffer[i] * buffer[i]], 1, Len(buffer))

\* rms < 0.01 with rms = Math.sqrt(sum / bufferSize); 0 / 0 is NaN, and
\* NaN < 0.01 is false
RmsBelowSilence(buffer) ==
    /\ Len(buffer) # 0
    /\ SumOfSquares(buffer) * 100 * 100 < SampleUnit * SampleUnit * Len(buffer)

\* Step 1: the difference function at lag tau
Difference(buffer, tau) ==
    LET halfBuffer == Len(buffer) \div 2
    IN  SumFrom([i \in 0..(halfBuffer - 1) |->
                    (buffer[i + 1] - buffer[i + tau + 1])
                    * (buffer[i + 1] - buffer[i + tau + 1])],
                0, halfBuffer - 1)

\* 0 / 0 stored as 0
StoreQuotient_ZeroForNaN(n, d) ==
    IF d = 0 THEN F32(0)
    ELSE F32((2 * n * YinScale + d) \div (2 * d))

\* yinBuffer[tau] = n / d: the quotient of two non-negative numbers, rounded
\* on the store
StoreQuotient(n, d) ==
    IF d = 0 THEN (IF n = 0 THEN JSNaN ELSE PosInf)
    ELSE F32((2 * n * YinScale + d) \div (2 * d))

\* Step 2: yinBuffer after the cumulative mean normalized difference
CumulativeMeanNormalizedDifference(buffer) ==
    LET halfBuffer == Len(buffer) \div 2
        delta == [tau \in 1..(halfBuffer - 1) |-> Difference(buffer, tau)]
        runningSum == [tau \in 1..(halfBuffer - 1) |-> SumFrom(delta, 1, tau)]
    IN  [tau \in 0..(halfBuffer - 1) |->
            IF tau = 0 THEN F32(YinScale)
            ELSE StoreQuotient(delta[tau] * tau, runningSum[tau])]

\* a divisor of step 2 is zero
ZeroDivisor(buffer) ==
    LET halfBuffer == Len(buffer) \div 2
    IN  \E tau \in 1..(halfBuffer - 1) :
            SumFrom([j \in 1..tau |-> Difference(buffer, j)], 1, tau) = 0

RECURSIVE ThresholdScan(_, _, _)
\* for (tau = 2; tau < halfBuffer; tau++) if (yinBuffer[tau] < yinThreshold)
ThresholdScan(yinBuffer, tau, halfBuffer) ==
    IF tau >= halfBuffer THEN 0 - 1
    ELSE IF F32Lt(yinBuffer[tau], F32(yinThreshold)) THEN tau
    ELSE ThresholdScan(yinBuffer, tau + 1, halfBuffer)

RECURSIVE DipWalk(_, _, _)
\* while (tau + 1 < halfBuffer && yinBuffer[tau + 1] < yinBuffer[tau]) tau++
DipWalk(yinBuffer, tau, halfBuffer) ==
    IF tau + 1 < halfBuffer /\ F32Lt(yinBuffer[tau + 1], yinBuffer[tau])
    THEN DipWalk(yinBuffer, tau + 1, halfBuffer)
    ELSE tau

\* the first lag under the threshold is taken, the dip is not followed
AbsoluteThreshold_NoWalk(yinBuffer, halfBuffer) ==
    LET first == ThresholdScan(yinBuffer, 2, halfBuffer)
    IN  [first |-> first, tauEstimate |-> first]

\* Step 3: the absolute threshold
AbsoluteThreshold(yinBuffer, halfBuffer) ==
    LET first == ThresholdScan(yinBuffer, 2, halfBuffer)
    IN  [first |-> first,
         tauEstimate |-> IF first = 0 - 1 THEN 0 - 1
                         ELSE DipWalk(yinBuffer, first, halfBuffer)]

\* Step 4: parabolic interpolation; betterTau as a quotient
ParabolicInterpolation(yinBuffer, tauEstimate, halfBuffer) ==
    IF tauEstimate > 0 /\ tauEstimate < halfBuffer - 1
    THEN LET s0 == yinBuffer[tauEstimate - 1]
             s1 == yinBuffer[tauEstimate]
             s2 == yinBuffer[tauEstimate + 1]
             adjustment ==
                 IF s0.t = "f32" /\ s1.t = "f32" /\ s2.t = "f32"
                 THEN IntDivide(s2.p - s0.p, 2 * (2 * s1.p - s2.p - s0.p))
                 ELSE JSNaN
         IN  IF IsFinite(adjustment)
             THEN Rat(tauEstimate * adjustment.q + adjustment.p, adjustment.q)
             ELSE Rat(tauEstimate, 1)
    ELSE Rat(tauEstimate, 1)

\* sampleRate / x for an integer sampleRate and a quotient x
RateOver(sampleRate, x) == IntDivide(sampleRate * x.q, x.p)

\* { frequency: -1, probability: 0 }
NoPitch == [frequency |-> Rat(0 - 1, 1), probability |-> Rat(0, 1)]

\* the upper limit is not tested
OutsideRange_LowerOnly(frequency) == NumLtInt(frequency, minFrequency)

\* frequency < this.minFrequency || frequency > this.maxFrequency
OutsideRange(frequency) ==
    NumLtInt(frequency, minFrequency) \/ NumGtInt(frequency, maxFrequency)

\* steps 1 to 4 and the range filter of yinDetect
YinSteps(buffer, sampleRate) ==
    LET halfBuffer == Len(buffer) \div 2
        yinBuffer == CumulativeMeanNormalizedDifference(buffer)
        step3 == AbsoluteThreshold(yinBuffer, halfBuffer)
        tauEstimate == step3.tauEstimate
        betterTau == ParabolicInterpolation(yinBuffer, tauEstimate, halfBuffer)
        frequency == RateOver(sampleRate, betterTau)
        probability == Rat(YinScale - yinBuffer[tauEstimate].p, YinScale)
    IN  IF tauEstimate = 0 - 1
        THEN [ret |-> NoPitch, exit |-> "no pitch", first |-> 0 - 1,
              tauEstimate |-> 0 - 1, betterTau |-> JSUndefined]
        ELSE IF OutsideRange(frequency)
        THEN [ret |-> NoPitch, exit |-> "out of range", first |-> step3.first,
              tauEstimate |-> tauEstimate, betterTau |-> betterTau]
        ELSE [ret |-> [frequency |-> frequency, probability |-> probability],
              exit |-> "pitch", first |-> step3.first,
              tauEstimate |-> tauEstimate, betterTau |-> betterTau]

\* the silence test is left out
yinDetect_NoSilenceGate(buffer, sampleRate) == YinSteps(buffer, sampleRate)

\* yinDetect(buffer, sampleRate): the returned object (ret) and the path taken
yinDetect(buffer, sampleRate) ==
    IF RmsBelowSilence(buffer)
    THEN [ret |-> NoPitch, exit |-> "silence", first |-> 0 - 1,
          tauEstimate |-> 0 - 1, betterTau |-> JSUndefined]
    ELSE YinSteps(buffer, sampleRate)

\* ---- autoCorrelate (the autocorrelation detector) ----
\* the zero-based index where the trimmed buffer starts
TrimStart(buffer) ==
    LET crossings == {i \in 0..(Len(buffer) - 2) :
                         /\ 2 * i < Len(buffer)
                         /\ buffer[i + 1] < 0
                         /\ buffer[i + 2] >= 0}
    IN  IF crossings = {} THEN 0
        ELSE CHOOSE i \in crossings : \A j \in crossings : i <= j

\* the zero-based index where the trimmed buffer ends
TrimEnd(buffer) ==
    LET crossings == {i \in 1..(Len(buffer) - 1) :
                         /\ 2 * i >= Len(buffer)
                         /\ buffer[i + 1] < 0
                         /\ buffer[i] >= 0}
    IN  IF crossings = {} THEN Len(buffer) - 1
        ELSE CHOOSE i \in crossings : \A j \in crossings : i >= j

\* buffer.slice(start, end) for 0 <= start and end >= -1
Slice(buffer, start, end) ==
    IF end < 0 THEN SubSeq(buffer, start + 1, Len(buffer) + end)
    ELSE SubSeq(buffer, start + 1, end)

\* correlations[lag] for lag in 0..size-1
Correlations(trimmedBuffer) ==
    LET size == Len(trimmedBuffer)
    IN  [lag \in 0..(size - 1) |->
            SumFrom([i \in 0..(size - lag - 1) |->
                        trimmedBuffer[i + 1] * trimmedBuffer[i + lag + 1]],
                    0, size - lag - 1)]

RECURSIVE PeakSearch(_, _, _, _, _)
\* the loop over lag, with prevCorr = correlations[lag - 1]
PeakSearch(correlations, size, lag, foundPeak, peakLag) ==
    IF lag >= size THEN peakLag
    ELSE LET corr == correlations[lag]
             prevCorr == correlations[lag - 1]
         IN  IF ~foundPeak
             THEN IF corr > prevCorr /\ 2 * prevCorr < correlations[0]
                  THEN PeakSearch(correlations, size, lag + 1, TRUE, lag)
                  ELSE PeakSearch(correlations, size, lag + 1, FALSE, peakLag)
             ELSE IF corr > correlations[peakLag]
                  THEN PeakSearch(correlations, size, lag + 1, TRUE, lag)
                  ELSE IF 10 * corr < 9 * correlations[peakLag]
                       THEN peakLag
                       ELSE PeakSearch(correlations, size, lag + 1, TRUE, peakLag)

\* peakLag + a for an integer peakLag and a number a
LagPlus(peakLag, a) ==
    IF a.t = "rat" THEN Rat(peakLag * a.q + a.p, a.q) ELSE a

\* sampleRate / x for a positive integer sampleRate and a number x
RateOverNumber(sampleRate, x) ==
    IF x.t = "rat" THEN IntDivide(sampleRate * x.q, x.p)
    ELSE IF IsInfinite(x) THEN Rat(0, 1)
    ELSE JSNaN

\* the range filter is left out
autoCorrelate_NoRangeFilter(buffer, sampleRate) ==
    IF RmsBelowSilence(buffer)
    THEN [ret |-> Rat(0 - 1, 1), exit |-> "silence", peakLag |-> 0, size |-> 0,
          denominator |-> 0]
    ELSE LET trimmedBuffer == Slice(buffer, TrimStart(buffer), TrimEnd(buffer))
             size == Len(trimmedBuffer)
             correlations == Correlations(trimmedBuffer)
             peakLag == PeakSearch(correlations, size, 1, FALSE, 0)
             y1 == correlations[peakLag - 1]
             y2 == correlations[peakLag]
             y3 == IF peakLag + 1 < size THEN correlations[peakLag + 1] ELSE 0
             denominator == 2 * (2 * y2 - y1 - y3)
             refinedLag == LagPlus(peakLag, IntDivide(y3 - y1, denominator))
             frequency == RateOverNumber(sampleRate, refinedLag)
         IN  IF peakLag = 0
             THEN [ret |-> Rat(0 - 1, 1), exit |-> "no peak", peakLag |-> 0,
                   size |-> size, denominator |-> 0]
             ELSE [ret |-> frequency, exit |-> "pitch", peakLag |-> peakLag,
                   size |-> size, denominator |-> denominator]

\* autoCorrelate(buffer, sampleRate): the returned number (ret) and the path
\* taken
autoCorrelate(buffer, sampleRate) ==
    IF RmsBelowSilence(buffer)
    THEN [ret |-> Rat(0 - 1, 1), exit |-> "silence", peakLag |-> 0, size |-> 0,
          denominator |-> 0]
    ELSE LET trimmedBuffer == Slice(buffer, TrimStart(buffer), TrimEnd(buffer))
             size == Len(trimmedBuffer)
             correlations == Correlations(trimmedBuffer)
             peakLag == PeakSearch(correlations, size, 1, FALSE, 0)
             y1 == correlations[peakLag - 1]
             y2 == correlations[peakLag]
             y3 == IF peakLag + 1 < size THEN correlations[peakLag + 1] ELSE 0
             denominator == 2 * (2 * y2 - y1 - y3)
             refinedLag == LagPlus(peakLag, IntDivide(y3 - y1, denominator))
             frequency == RateOverNumber(sampleRate, refinedLag)
         IN  IF peakLag = 0
             THEN [ret |-> Rat(0 - 1, 1), exit |-> "no peak", peakLag |-> 0,
                   size |-> size, denominator |-> 0]
             ELSE IF OutsideRange(frequency)
             THEN [ret |-> Rat(0 - 1, 1), exit |-> "out of range",
                   peakLag |-> peakLag, size |-> size,
                   denominator |-> denominator]
             ELSE [ret |-> frequency, exit |-> "pitch", peakLag |-> peakLag,
                   size |-> size, denominator |-> denominator]

\* ---- detector inputs ----
\* the sample values of the enumerated buffers: -0.02, 0 and 0.005
SampleValues == {0 - 4, 0, 1}

\* the longest enumerated buffer
MaxBufferLen == 8

\* every buffer of at most MaxBufferLen samples; the empty one is included
ShortBuffers == UNION {[1..n -> SampleValues] : n \in 0..MaxBufferLen}

\* sampled tones whose period lies between two lags
ToneBuffers ==
    {<<3, 2, 0 - 1, 0 - 3, 0 - 2, 0, 3, 3, 1, 0 - 2, 0 - 3, 0 - 1, 1, 3, 2, 0>>,
     <<3, 2, 0 - 1, 0 - 3, 0 - 2, 0, 3, 3, 1, 0 - 2, 0 - 3, 0 - 1, 1, 3, 2, 0,
       0 - 3, 0 - 3>>,
     <<0, 2, 3, 2, 0 - 1, 0 - 3, 0 - 3, 0 - 1, 1, 3, 3, 1, 0 - 2, 0 - 3, 0 - 2,
       0, 2, 3>>}

BufferInputs == ShortBuffers \cup ToneBuffers

\* sample rates in Hz; the first two are not rates an AudioContext has
SampleRateInputs == {0 - 8000, 0, 210, 8000}

PositiveSampleRates == {r \in SampleRateInputs : r > 0}

CallYinDetect ==
    /\ pc = "ready"
    /\ call.op = "none"
    /\ \E buffer \in BufferInputs : \E sampleRate \in SampleRateInputs :
           \E r \in {yinDetect(buffer, sampleRate)} :
               call' = [op |-> "yinDetect", d |-> buffer, t |-> sampleRate,
                        c |-> [exit |-> r.exit, first |-> r.first,
                               tauEstimate |-> r.tauEstimate,
                               betterTau |-> r.betterTau],
                        ret |-> r.ret]
    /\ UNCHANGED <<fretboard, string, fret, FRETBOARD, pc, window, now>>

CallAutoCorrelate ==
    /\ pc = "ready"
    /\ call.op = "none"
    /\ \E buffer \in BufferInputs : \E sampleRate \in PositiveSampleRates :
           \E r \in {autoCorrelate(buffer, sampleRate)} :
               call' = [op |-> "autoCorrelate", d |-> buffer, t |-> sampleRate,
                        c |-> [exit |-> r.exit, peakLag |-> r.peakLag,
                               size |-> r.size, denominator |-> r.denominator],
                        ret |-> r.ret]
    /\ UNCHANGED <<fretboard, string, fret, FRETBOARD, pc, window, now>>

\* the detector: script load, then calls of yinDetect and of autoCorrelate
NextDetector ==
    \/ GenerateFretboardStep
    \/ GenerateFretboardReturn
    \/ CallYinDetect
    \/ CallAutoCorrelate
    \/ CallReturn

SpecDetector == Init /\ [][NextDetector]_vars

\* the YIN detector alone
NextYin ==
    \/ GenerateFretboardStep
    \/ GenerateFretboardReturn
    \/ CallYinDetect
    \/ CallReturn

SpecYin == Init /\ [][NextYin]_vars

\* the autocorrelation detector alone
NextAutoCorrelate ==
    \/ GenerateFretboardStep
    \/ GenerateFretboardReturn
    \/ CallAutoCorrelate
    \/ CallReturn

SpecAutoCorrelate == Init /\ [][NextAutoCorrelate]_vars

\* ---- detector properties ----
\* C12: for every buffer whose RMS is below 0.01 (the all-zero buffer and a
\* buffer of one small constant amplitude included), yinDetect returns
\* frequency -1 with probability 0 and autoCorrelate returns -1, whatever the
\* sample rate.
C12_SilenceGivesNoDetection ==
    /\ (call.op = "yinDetect" /\ RmsBelowSilence(call.d))
       => call.ret = NoPitch
    /\ (call.op = "autoCorrelate" /\ RmsBelowSilence(call.d))
       => call.ret = Rat(0 - 1, 1)

\* a quiet buffer with an exact period of two samples: its RMS is 0.0035, and
\* without the silence test step 3 would find lag 2
C12_Witness ==
    /\ call.op = "yinDetect"
    /\ call.d = <<1, 0, 1, 0, 1, 0, 1, 0>>
    /\ call.t = 210
    /\ RmsBelowSilence(call.d)
    /\ YinSteps(call.d, call.t).exit = "pitch"
    /\ call.ret = NoPitch

\* all samples are equal
ZeroVariance(buffer) ==
    Len(buffer) > 0 /\ \A i \in 1..Len(buffer) : buffer[i] = buffer[1]

\* |x| < 0.01 for a sample x
SampleBelowSilence(x) == AbsInt(x) * 100 < SampleUnit

\* C13 as stated: for every buffer with zero variance (all samples equal,
\* whatever the common value), yinDetect returns no detection through the
\* early RMS gate and never evaluates a division whose divisor is zero.
C13_ZeroVarianceSilenceGate ==
    (call.op = "yinDetect" /\ ZeroVariance(call.d))
    => /\ call.ret = NoPitch
       /\ call.c.exit = "silence"
       /\ ~(call.c.exit # "silence" /\ ZeroDivisor(call.d))

\* C13 (amended): for every buffer with zero variance yinDetect returns
\* (-1, 0).  It does so through the early RMS gate exactly when the common
\* value is below 0.01 in magnitude.  For any other common value the gate is
\* passed; if the buffer has at least 4 samples every d'(tau), tau >= 1, is
\* computed as 0 * tau / 0, a division whose divisor is zero, and is NaN; no
\* lag is below the threshold and the no-pitch return is taken.
C13_ZeroVarianceNoDetection ==
    (call.op = "yinDetect" /\ ZeroVariance(call.d))
    => /\ call.ret = NoPitch
       /\ (call.c.exit = "silence") <=> SampleBelowSilence(call.d[1])
       /\ (call.c.exit # "silence")
          => /\ call.c.exit = "no pitch"
             /\ ZeroDivisor(call.d) <=> (Len(call.d) >= 4)
             /\ \A tau \in 1..((Len(call.d) \div 2) - 1) :
                    CumulativeMeanNormalizedDifference(call.d)[tau] = JSNaN

\* eight samples of a constant -0.02: the RMS is 0.02, step 2 divides 0 by 0
C13_Witness ==
    /\ call.op = "yinDetect"
    /\ call.d = <<0 - 4, 0 - 4, 0 - 4, 0 - 4, 0 - 4, 0 - 4, 0 - 4, 0 - 4>>
    /\ call.t = 8000
    /\ ~RmsBelowSilence(call.d)
    /\ ZeroDivisor(call.d)
    /\ call.c.exit = "no pitch"
    /\ call.ret = NoPitch

\* C14: every result of yinDetect is either (-1, 0) or a pair with frequency
\* in [70, 1200] and probability in [0, 1]; no other pair is returned.
C14_ResultShape ==
    (call.op = "yinDetect")
    => \/ call.ret = NoPitch
       \/ /\ call.ret.frequency.t = "rat"
          /\ minFrequency * call.ret.frequency.q <= call.ret.frequency.p
          /\ call.ret.frequency.p <= maxFrequency * call.ret.frequency.q
          /\ call.ret.probability.t = "rat"
          /\ 0 <= call.ret.probability.p
          /\ call.ret.probability.p <= call.ret.probability.q

\* a detection with an interpolated lag and a probability below 1
C14_Witness ==
    /\ call.op = "yinDetect"
    /\ call.c.exit = "pitch"
    /\ call.c.betterTau.q # 1
    /\ call.ret.frequency.p > minFrequency * call.ret.frequency.q
    /\ call.ret.probability.p < call.ret.probability.q
    /\ \E sampleRate \in SampleRateInputs :
           yinDetect(call.d, sampleRate).exit = "out of range"

\* C15: in yinDetect, with t0 the smallest lag >= 2 below half the buffer
\* length whose d'(t0) is under the threshold, the chosen lag is the first
\* t >= t0 such that d'(t+1) >= d'(t) or t+1 is outside the lag range; d' is
\* strictly decreasing from t0 to the chosen lag and d'(chosen) is under the
\* threshold.  If no lag has d' under the threshold the result is (-1, 0).
C15_ChosenLag ==
    (call.op = "yinDetect" /\ call.c.exit # "silence")
    => LET halfBuffer == Len(call.d) \div 2
           d == CumulativeMeanNormalizedDifference(call.d)
           under == {t \in 2..(halfBuffer - 1) :
                        d[t].t = "f32" /\ d[t].p < yinThreshold}
           stops(t) == \/ t + 1 >= halfBuffer
                       \/ d[t + 1].t = "f32" /\ d[t + 1].p >= d[t].p
           chosen == call.c.tauEstimate
       IN  IF under = {}
           THEN call.ret = NoPitch /\ call.c.exit = "no pitch"
           ELSE LET t0 == CHOOSE t \in under : \A u \in under : t <= u
                IN  /\ call.c.first = t0
                    /\ chosen >= t0
                    /\ chosen < halfBuffer
                    /\ stops(chosen)
                    /\ \A t \in t0..(chosen - 1) : ~stops(t)
                    /\ \A t \in t0..(chosen - 1) : d[t + 1].p < d[t].p
                    /\ chosen \in under

\* a dip followed over one lag and left where d' rises again
C15_Witness ==
    /\ call.op = "yinDetect"
    /\ call.c.first = 6
    /\ call.c.tauEstimate = 7
    /\ Len(call.d) = 18
    /\ F32Lt(CumulativeMeanNormalizedDifference(call.d)[7],
             CumulativeMeanNormalizedDifference(call.d)[6])
    /\ ~F32Lt(CumulativeMeanNormalizedDifference(call.d)[8],
              CumulativeMeanNormalizedDifference(call.d)[7])

\* an empty buffer, fewer than 4 samples after halving, or a non-positive
\* sample rate
InvalidInput(buffer, sampleRate) ==
    Len(buffer) = 0 \/ Len(buffer) \div 2 < 4 \/ sampleRate <= 0

\* C16: called with an empty buffer, a buffer too short for a lag range, or
\* a non-positive sample rate, the pitch estimator produces an error outcome
\* that can be told apart from the no-detection result (-1, 0).
C16_InvalidInputFailsLoudly ==
    (call.op = "yinDetect" /\ InvalidInput(call.d, call.t))
    => call.ret # NoPitch

\* C17: every value returned by autoCorrelate is either -1 or a frequency in
\* [70, 1200], also when the denominator of the parabolic interpolation is
\* zero or the peak lag is the last lag of the trimmed buffer.
C17_AutoCorrelateRange ==
    (call.op = "autoCorrelate")
    => \/ call.ret = Rat(0 - 1, 1)
       \/ /\ call.ret.t = "rat"
          /\ minFrequency * call.ret.q <= call.ret.p
          /\ call.ret.p <= maxFrequency * call.ret.q

\* the peak is the last lag and the denominator is zero: the refined lag is
\* infinite, the frequency 0, and -1 is returned
C17_Witness ==
    /\ call.op = "autoCorrelate"
    /\ call.c.peakLag = call.c.size - 1
    /\ call.c.peakLag > 0
    /\ call.c.denominator = 0
    /\ call.c.exit = "out of range"
    /\ call.ret = Rat(0 - 1, 1)
    /\ \E b \in BufferInputs :
           /\ autoCorrelate(b, call.t).exit = "pitch"
           /\ autoCorrelate(b, call.t).peakLag = autoCorrelate(b, call.t).size - 1

\* ---- FretboardTrainer ----
successDisplayDuration == 800
detectionHoldTime == 150
calibrationDuration == 2000
\* the delay before nextCalibrationString in completeStringCalibration
nextStringDelay == 800

\* setTimeout(callback, delay) at time t: the queue is in order of due time,
\* ties in order of registration
RECURSIVE InsertTimer(_, _)
InsertTimer(timers, timer) ==
    IF timers = <<>> THEN <<timer>>
    ELSE IF timer.due < Head(timers).due THEN <<timer>> \o timers
    ELSE <<Head(timers)>> \o InsertTimer(Tail(timers), timer)

setTimeout(w, t, callback, delay) ==
    [w EXCEPT !.timers = InsertTimer(@, [due |-> t + delay, callback |-> callback])]

\* an AudioContext or a MediaStream
JSObject == [t |-> "object", p |-> 0]

\* stop that leaves the AudioContext in place
detectorStop_ContextKept(w) ==
    [w EXCEPT !.detector.isListening = FALSE, !.detector.mediaStream = JSNull]

\* AudioPitchDetector.stop
detectorStop(w) ==
    [w EXCEPT !.detector = [isListening |-> FALSE, audioContext |-> JSNull,
                            mediaStream |-> JSNull]]

\* statusIndicator is the class of the status indicator after
\* 'status-indicator': "" (showWaiting), "listening", "success" or "error"
stopSession(w) ==
    detectorStop([w EXCEPT !.app.isRunning = FALSE, !.app.statusIndicator = ""])

\* k is the outcome of Math.random in getRandomChallenge
nextChallenge(w, k) ==
    [w EXCEPT !.app.currentChallenge = getRandomChallenge(k).ret,
              !.app.correctStartTime = JSNull,
              !.app.statusIndicator = "listening"]

\* handleCorrect without the test of isRunning
handleCorrect_AlwaysScores(w, t) ==
    setTimeout([w EXCEPT !.app.score = @ + 1,
                         !.app.correctStreak = @ + 1,
                         !.app.currentChallenge = JSNull,
                         !.app.statusIndicator = "success"],
               t, "nextChallenge", successDisplayDuration)

handleCorrect(w, t) ==
    IF ~w.app.isRunning THEN w
    ELSE setTimeout([w EXCEPT !.app.score = @ + 1,
                              !.app.correctStreak = @ + 1,
                              !.app.currentChallenge = JSNull,
                              !.app.statusIndicator = "success"],
                    t, "nextChallenge", successDisplayDuration)

getCalibrationOffset(w, stringNum) ==
    IF Falsy(w.app.calibrationOffsets[stringNum]) THEN Lin(0)
    ELSE w.app.calibrationOffsets[stringNum]

\* Math.pow(2, offsetCents / 1200) for an offset that is a whole number of
\* grid steps
Pow2Cents(offsetCents) ==
    IF offsetCents.t = "lin" THEN Pos(offsetCents.p \div (LinScale \div CentSteps))
    ELSE JSNaN

\* getCalibratedTargetFrequency with the offset left out
getCalibratedTargetFrequency_NoOffset(w, targetFreq, stringNum) == targetFreq

getCalibratedTargetFrequency(w, targetFreq, stringNum) ==
    LET offsetCents == getCalibrationOffset(w, stringNum)
        factor == Pow2Cents(offsetCents)
    IN  IF factor.t = "pos" THEN Mul(targetFreq, factor) ELSE JSNaN

\* handlePitchDetected that scores on the second matching detection whatever
\* the time since the first
handlePitchDetected_NoHold(w, t, frequency) ==
    IF ~w.app.isRunning \/ w.app.currentChallenge = JSNull THEN w
    ELSE IF frequencyToNote(frequency).kind = "null" THEN w
    ELSE LET calibratedTarget ==
                 getCalibratedTargetFrequency(w, w.app.currentChallenge.frequency,
                                              w.app.currentChallenge.string)
             isMatch == isNoteMatch(frequency, calibratedTarget, w.app.tolerance)
         IN  IF isMatch
             THEN IF w.app.correctStartTime = JSNull
                  THEN [w EXCEPT !.app.correctStartTime = Ms(t)]
                  ELSE handleCorrect(w, t)
             ELSE [w EXCEPT !.app.correctStartTime = JSNull]

\* handlePitchDetected without the test of isRunning
handlePitchDetected_NotRunning(w, t, frequency) ==
    IF w.app.currentChallenge = JSNull THEN w
    ELSE IF frequencyToNote(frequency).kind = "null" THEN w
    ELSE LET calibratedTarget ==
                 getCalibratedTargetFrequency(w, w.app.currentChallenge.frequency,
                                              w.app.currentChallenge.string)
             isMatch == isNoteMatch(frequency, calibratedTarget, w.app.tolerance)
         IN  IF isMatch
             THEN IF w.app.correctStartTime = JSNull
                  THEN [w EXCEPT !.app.correctStartTime = Ms(t)]
                  ELSE IF t - w.app.correctStartTime.p >= detectionHoldTime
                       THEN handleCorrect(w, t)
                       ELSE w
             ELSE [w EXCEPT !.app.correctStartTime = JSNull]

handlePitchDetected(w, t, frequency) ==
    IF ~w.app.isRunning \/ w.app.currentChallenge = JSNull THEN w
    ELSE IF frequencyToNote(frequency).kind = "null" THEN w
    ELSE LET calibratedTarget ==
                 getCalibratedTargetFrequency(w, w.app.currentChallenge.frequency,
                                              w.app.currentChallenge.string)
             isMatch == isNoteMatch(frequency, calibratedTarget, w.app.tolerance)
         IN  IF isMatch
             THEN IF w.app.correctStartTime = JSNull
                  THEN [w EXCEPT !.app.correctStartTime = Ms(t)]
                  ELSE IF t - w.app.correctStartTime.p >= detectionHoldTime
                       THEN handleCorrect(w, t)
                       ELSE w
             ELSE [w EXCEPT !.app.correctStartTime = JSNull]

showCalibrationString(w, stringNum) ==
    [w EXCEPT !.app.currentCalibrationString = stringNum,
              !.app.calibrationSamples = <<>>,
              !.app.calibrationStartTime = JSNull,
              !.app.calibrationStatus = "Listening..."]

\* a value after JSON.stringify and JSON.parse
JSONValue(x) == IF x.t \in {"nan", "inf", "-inf"} THEN JSNull ELSE x

saveCalibration(w, t) ==
    [w EXCEPT !.localStorage.fretboardTrainerCalibration =
                  [timestamp |-> Ms(t),
                   offsets |-> [s \in 1..6 |-> JSONValue(w.app.calibrationOffsets[s])]]]

finishCalibration(w, t) ==
    saveCalibration(detectorStop([w EXCEPT !.app.isCalibrating = FALSE]), t)

nextCalibrationString(w, t) ==
    LET nextString == w.app.currentCalibrationString - 1
    IN  IF nextString >= 1 THEN showCalibrationString(w, nextString)
        ELSE finishCalibration(w, t)

skipCalibrationString(w, t) ==
    nextCalibrationString(
        [w EXCEPT !.app.calibrationOffsets[w.app.currentCalibrationString] = Lin(0)], t)

cancelCalibration(w) == detectorStop([w EXCEPT !.app.isCalibrating = FALSE])

\* [...samples].sort((a, b) => a - b)
RECURSIVE InsertAscending(_, _)
InsertAscending(sorted, x) ==
    IF sorted = <<>> THEN <<x>>
    ELSE IF LogLt(x, Head(sorted)) THEN <<x>> \o sorted
    ELSE <<Head(sorted)>> \o InsertAscending(Tail(sorted), x)

RECURSIVE SortAscending(_)
SortAscending(samples) ==
    IF samples = <<>> THEN <<>>
    ELSE InsertAscending(SortAscending(SubSeq(samples, 1, Len(samples) - 1)),
                         samples[Len(samples)])

\* completeStringCalibration taking the lower of the two middle samples
completeStringCalibration_LowerMiddle(w, t) ==
    LET sorted == SortAscending(w.app.calibrationSamples)
        medianFreq == ArrayAt(sorted, (Len(sorted) - 1) \div 2)
        expectedFreq == OPEN_STRINGS[w.app.currentCalibrationString].frequency
        offsetCents == KLog2(1200, Div(medianFreq, expectedFreq))
    IN  setTimeout([w EXCEPT !.app.calibrationOffsets[w.app.currentCalibrationString] =
                                 offsetCents,
                             !.app.calibrationStatus = "Calibrated!"],
                   t, "nextCalibrationString", nextStringDelay)

completeStringCalibration(w, t) ==
    LET sorted == SortAscending(w.app.calibrationSamples)
        medianFreq == ArrayAt(sorted, Len(sorted) \div 2)
        expectedFreq == OPEN_STRINGS[w.app.currentCalibrationString].frequency
        offsetCents == KLog2(1200, Div(medianFreq, expectedFreq))
    IN  setTimeout([w EXCEPT !.app.calibrationOffsets[w.app.currentCalibrationString] =
                                 offsetCents,
                             !.app.calibrationStatus = "Calibrated!"],
                   t, "nextCalibrationString", nextStringDelay)

\* probability < 0.8
BelowConfidence(probability) == LinLt(probability, Lin((8 * LinScale) \div 10))

\* the pitch gate with two semitones for one
OutsideGate_TwoSemitones(centsOff) == LinLt(Lin(200 * LinScale), MathAbs(centsOff))

\* Math.abs(centsOff) > 100
OutsideGate(centsOff) == LinLt(Lin(100 * LinScale), MathAbs(centsOff))

\* the wrong-note branch with the samples kept
RejectSample_SamplesKept(w) ==
    [w EXCEPT !.app.calibrationStartTime = JSNull,
              !.app.calibrationStatus = "Wrong note detected, try again..."]

\* the wrong-note branch of handleCalibrationPitch
RejectSample(w) ==
    [w EXCEPT !.app.calibrationStartTime = JSNull,
              !.app.calibrationSamples = <<>>,
              !.app.calibrationStatus = "Wrong note detected, try again..."]

handleCalibrationPitch(w, t, frequency, probability) ==
    IF ~w.app.isCalibrating \/ BelowConfidence(probability) THEN w
    ELSE LET expectedFreq == OPEN_STRINGS[w.app.currentCalibrationString].frequency
             centsOff == KLog2(1200, Div(frequency, expectedFreq))
         IN  IF OutsideGate(centsOff) THEN RejectSample(w)
             ELSE LET started ==
                          IF w.app.calibrationStartTime = JSNull
                          THEN [w EXCEPT !.app.calibrationStartTime = Ms(t),
                                         !.app.calibrationStatus = "Hold the note..."]
                          ELSE w
                      collected ==
                          [started EXCEPT !.app.calibrationSamples = Append(@, frequency)]
                      elapsed == t - collected.app.calibrationStartTime.p
                  IN  IF elapsed >= calibrationDuration
                      THEN completeStringCalibration(collected, t)
                      ELSE collected

\* detector.onPitchDetected, as set in init
onPitchDetected(w, t, frequency, probability) ==
    IF w.app.isCalibrating THEN handleCalibrationPitch(w, t, frequency, probability)
    ELSE handlePitchDetected(w, t, frequency)

\* startSession after `await this.detector.start()`
startSessionResumes(w, success, k) ==
    IF ~success THEN [w EXCEPT !.app.statusIndicator = "error"]
    ELSE nextChallenge([w EXCEPT !.app.isRunning = TRUE,
                                 !.app.score = 0,
                                 !.app.correctStreak = 0], k)

\* startCalibration after `await this.detector.start()`
startCalibrationResumes(w, success) ==
    IF ~success THEN w
    ELSE showCalibrationString([w EXCEPT !.app.isCalibrating = TRUE,
                                         !.app.calibrationOffsets = NoOffsets], 6)

\* the caller of start() resumes; a caller other than the trainer (a direct
\* call, as in the tests) does nothing with the result
Resumes(w, caller, success, k) ==
    IF caller = "startSession" THEN startSessionResumes(w, success, k)
    ELSE IF caller = "startCalibration" THEN startCalibrationResumes(w, success)
    ELSE [w EXCEPT !.returned = IF success THEN "success" ELSE "failure"]

\* start without the early return for a detector that listens
detectorStart_NoEarlyReturn(w, caller, k) ==
    IF ~w.mediaDevices THEN Resumes(w, caller, FALSE, k)
    ELSE [w EXCEPT !.detector.audioContext = JSObject,
                   !.starting = Append(@, caller)]

\* AudioPitchDetector.start called by `caller`: when already listening it
\* returns success and the caller resumes at once; without mediaDevices it
\* returns a failure at once; otherwise an AudioContext is made and the
\* caller waits for getUserMedia
detectorStart(w, caller, k) ==
    IF w.detector.isListening THEN Resumes(w, caller, TRUE, k)
    ELSE IF ~w.mediaDevices THEN Resumes(w, caller, FALSE, k)
    ELSE [w EXCEPT !.detector.audioContext = JSObject,
                   !.starting = Append(@, caller)]

\* getUserMedia settles for the i-th waiting call of start.  Granted: the
\* stream is stored and, unless stop() has dropped the AudioContext meanwhile
\* (createMediaStreamSource then throws on null and start returns a failure),
\* the detector listens.  Refused: start returns a failure.
getUserMediaSettles(w, i, granted, k) ==
    LET caller == w.starting[i]
        rest == [w EXCEPT !.starting = SubSeq(@, 1, i - 1) \o SubSeq(@, i + 1, Len(@))]
    IN  IF ~granted THEN Resumes(rest, caller, FALSE, k)
        ELSE IF w.detector.audioContext = JSNull
             THEN Resumes([rest EXCEPT !.detector.mediaStream = JSObject],
                          caller, FALSE, k)
             ELSE Resumes([rest EXCEPT !.detector.mediaStream = JSObject,
                                       !.detector.isListening = TRUE],
                          caller, TRUE, k)

startSession(w, k) ==
    IF w.app.mode = "audio" THEN detectorStart(w, "startSession", k)
    ELSE startSessionResumes(w, TRUE, k)

startCalibration(w) ==
    detectorStart(IF w.app.isRunning THEN stopSession(w) ELSE w, "startCalibration", 0)

\* the success timer without its test of isRunning
RunTimer_NoRunningTest(w, t, callback, k) ==
    IF callback = "nextChallenge" THEN nextChallenge(w, k)
    ELSE nextCalibrationString(w, t)

\* the callback of a timer that has come due
RunTimer(w, t, callback, k) ==
    IF callback = "nextChallenge"
    THEN (IF w.app.isRunning THEN nextChallenge(w, k) ELSE w)
    ELSE nextCalibrationString(w, t)

\* ---- inputs of the trainer ----
\* what earlier visits may have left in localStorage
StoredOffsets ==
    [s \in 1..6 |-> IF s = 1 THEN Lin(30 * LinScale)
                    ELSE IF s = 4 THEN Lin((0 - 20) * LinScale)
                    ELSE IF s = 3 THEN Lin(0)
                    ELSE IF s = 5 THEN Lin(60 * LinScale) ELSE JSUndefined]

\* a calibration and the difficulty "25"
StoredVisit ==
    [fretboardTrainerCalibration |-> [timestamp |-> Ms(0), offsets |-> StoredOffsets],
     fretboardTrainerTolerance |-> Lin(25 * LinScale)]

StorageInputs == {EmptyStorage, StoredVisit}

\* every ChallengeStride-th outcome of Math.random
ChallengeStride == 78
ChallengeOutcomes == {k \in RandomOutcomes : k % ChallengeStride = 0}

\* caps on the session and on the calibration
MaxScore == 2
MaxTimers == 2
MaxStarting == 1
MaxSamples == 2
MaxSessionTime == 950
MaxCalibrationTime == 2800

SessionSteps == {150, 800}
CalibrationSteps == {800, 2000}

\* the detector reports only frequencies in [minFrequency, maxFrequency]
Hz70 == Pos(7355140)
Hz1200 == Pos(12274582)
InDetectorRange(f) == ~LogLt(f, Hz70) /\ ~LogLt(Hz1200, f)

\* cents as grid steps
CentsToSteps(cents) == cents.p \div (LinScale \div CentSteps)

\* detections around the limits of acceptance of the current challenge
SessionPitchInputs(w) ==
    IF w.app.currentChallenge = JSNull \/ w.app.tolerance.t # "lin"
    THEN {[frequency |-> Hz440, probability |-> Lin(LinScale)]}
    ELSE LET raw == w.app.currentChallenge.frequency
             off == CentsToSteps(getCalibrationOffset(w, w.app.currentChallenge.string))
             tol == CentsToSteps(w.app.tolerance)
         IN  {[frequency |-> f, probability |-> Lin(LinScale)] :
                 f \in {g \in {raw, Shift(raw, off), Shift(raw, off + tol),
                               Shift(raw, off + tol + 1), Shift(raw, off - tol - 1)} :
                           InDetectorRange(g)}}

\* detections around the pitch gate of the current string; the probability is
\* at least 0.8 from the YIN detector and undefined from the autocorrelation
\* detector
CalibrationPitchInputs(w) ==
    LET e == OPEN_STRINGS[w.app.currentCalibrationString].frequency
    IN  {[frequency |-> Shift(e, 0 - (100 * CentSteps) - 1), probability |-> Lin(LinScale)],
         [frequency |-> Shift(e, 0 - (100 * CentSteps)), probability |-> Lin((8 * LinScale) \div 10)],
         [frequency |-> Shift(e, 30 * CentSteps), probability |-> JSUndefined],
         [frequency |-> Shift(e, (100 * CentSteps) + 1), probability |-> Lin(LinScale)]}

PitchInputs(w) ==
    IF w.app.isCalibrating THEN CalibrationPitchInputs(w) ELSE SessionPitchInputs(w)

\* ---- events of the page ----
Constructed == window.app # JSUndefined

PageUnchanged == UNCHANGED <<fretboard, string, fret, FRETBOARD, pc>>

\* window.app = new FretboardTrainer(), with one of `storages` in localStorage
DOMContentLoaded(storages) ==
    /\ pc = "ready"
    /\ ~Constructed
    /\ \E storage \in storages : window' = TrainerConstructed(storage)
    /\ call' = NoCall
    /\ UNCHANGED now
    /\ PageUnchanged

\* a first visit, or a visit after a calibration
OpenPage == DOMContentLoaded(StorageInputs)

\* a visit after a calibration
OpenCalibratedPage == DOMContentLoaded({StoredVisit})

\* a click on the start button while no session runs
StartSession ==
    /\ Constructed
    /\ ~window.app.isRunning
    /\ ~window.app.isCalibrating
    /\ window.detector.isListening \/ Len(window.starting) < MaxStarting
    /\ \E k \in ChallengeOutcomes : window' = startSession(window, k)
    /\ call' = NoCall
    /\ UNCHANGED now
    /\ PageUnchanged

\* a click on the start button while a session runs
StopSession ==
    /\ Constructed
    /\ window.app.isRunning
    /\ window' = stopSession(window)
    /\ call' = NoCall
    /\ UNCHANGED now
    /\ PageUnchanged

\* a click on the calibrate button; the calibration modal is not open, and
\* enough time is left to calibrate a string
StartCalibration ==
    /\ Constructed
    /\ ~window.app.isCalibrating
    /\ now + calibrationDuration + nextStringDelay <= MaxCalibrationTime
    /\ window.detector.isListening \/ Len(window.starting) < MaxStarting
    /\ window' = startCalibration(window)
    /\ call' = NoCall
    /\ UNCHANGED now
    /\ PageUnchanged

\* the user answers the microphone prompt, or the browser does
StartResolves ==
    /\ Constructed
    /\ \E i \in DOMAIN window.starting : \E granted \in BOOLEAN :
       \E k \in ChallengeOutcomes :
           window' = getUserMediaSettles(window, i, granted, k)
    /\ call' = NoCall
    /\ UNCHANGED now
    /\ PageUnchanged

\* a pass of the detection loop finds a pitch and calls onPitchDetected; the
\* loop runs while the detector listens, and its frame callbacks are followed
\* one by one in SpecMicrophone only
PitchDetected ==
    /\ Constructed
    /\ window.detector.isListening
    /\ window.app.score < MaxScore
    /\ Len(window.timers) < MaxTimers
    /\ Len(window.app.calibrationSamples) < MaxSamples
    /\ \E in \in PitchInputs(window) :
           /\ window' = onPitchDetected(window, now, in.frequency, in.probability)
           /\ call' = [op |-> "onPitchDetected", d |-> in.frequency,
                       t |-> in.probability,
                       c |-> [samples |-> window.app.calibrationSamples],
                       ret |-> JSUndefined]
    /\ UNCHANGED now
    /\ PageUnchanged

\* a click on Skip in the calibration modal
SkipCalibrationString ==
    /\ Constructed
    /\ window.app.isCalibrating
    /\ window' = skipCalibrationString(window, now)
    /\ call' = NoCall
    /\ UNCHANGED now
    /\ PageUnchanged

\* a click on Cancel in the calibration modal
CancelCalibration ==
    /\ Constructed
    /\ window.app.isCalibrating
    /\ window' = cancelCalibration(window)
    /\ call' = NoCall
    /\ UNCHANGED now
    /\ PageUnchanged

\* the first timer of the queue has come due and its callback runs
TimerFires ==
    /\ Constructed
    /\ window.timers # <<>>
    /\ Head(window.timers).due <= now
    /\ \E k \in ChallengeOutcomes :
           window' = RunTimer([window EXCEPT !.timers = Tail(@)], now,
                              Head(window.timers).callback, k)
    /\ call' = NoCall
    /\ UNCHANGED now
    /\ PageUnchanged

\* time passes, up to `limit`; a timer fires no later than it is due
Tick(steps, limit) ==
    /\ Constructed
    /\ \E dt \in steps :
           /\ now + dt <= limit
           /\ \A i \in DOMAIN window.timers : now + dt <= window.timers[i].due
           /\ now' = now + dt
    /\ call' = NoCall
    /\ UNCHANGED window
    /\ PageUnchanged

SessionTick == Tick(SessionSteps, MaxSessionTime)

CalibrationTick == Tick(CalibrationSteps, MaxCalibrationTime)

\* a practice session in audio mode
NextSession ==
    \/ GenerateFretboardStep
    \/ GenerateFretboardReturn
    \/ OpenPage
    \/ StartSession
    \/ StopSession
    \/ StartResolves
    \/ PitchDetected
    \/ TimerFires
    \/ SessionTick

SpecSession == Init /\ [][NextSession]_vars

\* the calibration of the six strings
NextCalibration ==
    \/ GenerateFretboardStep
    \/ GenerateFretboardReturn
    \/ OpenCalibratedPage
    \/ StartCalibration
    \/ StartResolves
    \/ PitchDetected
    \/ SkipCalibrationString
    \/ CancelCalibration
    \/ TimerFires
    \/ CalibrationTick

SpecCalibration == Init /\ [][NextCalibration]_vars

\* ---- properties of the trainer ----
\* the offset stored for string s, 0 when none is stored
StoredOffset(w, s) ==
    IF w.app.calibrationOffsets[s] = JSUndefined THEN Lin(0)
    ELSE w.app.calibrationOffsets[s]

\* |cents(d, rawTarget) - offset[s]| <= tolerance for the current challenge
WithinTolerance(w, d) ==
    LET rawTarget == w.app.currentChallenge.frequency
        cents == KLog2(1200, Div(d, rawTarget))
        offset == StoredOffset(w, w.app.currentChallenge.string)
    IN  LinLeq(MathAbs(Lin(cents.p - offset.p)), w.app.tolerance)

\* the detection of this step is matched against rawTarget * 2^(offset[s]/1200),
\* is accepted exactly when it is within the tolerance of it, and would be
\* accepted or rejected alike whatever is stored for the other strings
C18_Step ==
    (/\ Constructed
     /\ call'.op = "onPitchDetected"
     /\ window.app.isRunning
     /\ ~window.app.isCalibrating
     /\ window.app.currentChallenge # JSNull)
    => LET challenge == window.app.currentChallenge
       IN  /\ getCalibratedTargetFrequency(window, challenge.frequency, challenge.string)
                  = Shift(challenge.frequency,
                          CentsToSteps(StoredOffset(window, challenge.string)))
           /\ (window'.app.correctStartTime # JSNull) <=> WithinTolerance(window, call'.d)
           /\ \A s \in (1..6) \ {challenge.string} :
              \A v \in {JSUndefined, Lin(70 * LinScale)} :
                  (onPitchDetected([window EXCEPT !.app.calibrationOffsets[s] = v],
                                   now, call'.d, call'.t).app.correctStartTime = JSNull)
                  <=> (window'.app.correctStartTime = JSNull)

\* C18: the target used for matching a challenge on string s is
\* rawTarget * 2^(offset[s]/1200), with offset[s] = 0 when no offset is stored
\* for s; a detection d is accepted exactly when
\* |cents(d, rawTarget) - offset[s]| <= tolerance, tolerance being the
\* configured difficulty value, and the offsets of the other strings have no
\* effect.
C18_CalibratedMatch == [][C18_Step]_vars

\* a detection is accepted that the raw target would have rejected, on a
\* string with a stored offset, while another string has a different offset
C18_Witness ==
    /\ Constructed
    /\ call.op = "onPitchDetected"
    /\ window.app.isRunning
    /\ window.app.currentChallenge # JSNull
    /\ window.app.correctStartTime # JSNull
    /\ StoredOffset(window, window.app.currentChallenge.string).p # 0
    /\ WithinTolerance(window, call.d)
    /\ ~isNoteMatch(call.d, window.app.currentChallenge.frequency, window.app.tolerance)
    /\ \E s \in 1..6 : StoredOffset(window, s) # StoredOffset(window, window.app.currentChallenge.string)

\* f is within 100 cents of the tabulated open frequency of string s
InGate(f, s) ==
    LinLeq(MathAbs(KLog2(1200, Div(f, OPEN_STRINGS[s].frequency))), Lin(100 * LinScale))

\* C19: during calibration a pitch sample more than 100 cents from the
\* expected open frequency of the current string discards the samples
\* collected so far and the hold timer; in every reachable state every
\* frequency in calibrationSamples is within 100 cents of the expected
\* frequency of currentCalibrationString, and an offset is only ever computed
\* from samples that are all within the gate.
C19_GateKeepsSamplesClean ==
    Constructed =>
        LET app == window.app
        IN  /\ \A i \in DOMAIN app.calibrationSamples :
                   InGate(app.calibrationSamples[i], app.currentCalibrationString)
            /\ (/\ call.op = "onPitchDetected"
                /\ app.isCalibrating
                /\ ~InGate(call.d, app.currentCalibrationString))
               => (app.calibrationSamples = <<>> /\ app.calibrationStartTime = JSNull)
            /\ (/\ call.op = "onPitchDetected"
                /\ app.isCalibrating
                /\ app.calibrationStatus = "Calibrated!")
               => /\ app.calibrationSamples = Append(call.c.samples, call.d)
                  /\ \E i \in DOMAIN app.calibrationSamples :
                         app.calibrationOffsets[app.currentCalibrationString]
                             = KLog2(1200, Div(app.calibrationSamples[i],
                                  OPEN_STRINGS[app.currentCalibrationString].frequency))

\* a sample just over 100 cents sharp of the low E has discarded a set that
\* was not empty
C19_Witness ==
    /\ Constructed
    /\ call.op = "onPitchDetected"
    /\ window.app.isCalibrating
    /\ window.app.currentCalibrationString = 6
    /\ call.d = Shift(OPEN_STRINGS[6].frequency, (100 * CentSteps) + 1)
    /\ call.c.samples # <<>>
    /\ window.app.calibrationSamples = <<>>
    /\ window.app.calibrationStartTime = JSNull

\* a rejected sample leaves the calibration under way and in a state from
\* which a valid sample held for calibrationDuration completes the string
C20_Step ==
    (/\ Constructed
     /\ call'.op = "onPitchDetected"
     /\ window.app.isCalibrating
     /\ ~InGate(call'.d, window.app.currentCalibrationString))
    => LET string6to1 == window.app.currentCalibrationString
       IN  /\ window'.app.isCalibrating
           /\ window'.app.currentCalibrationString = string6to1
           /\ window'.app.calibrationOffsets = window.app.calibrationOffsets
           /\ window'.detector = window.detector
           /\ window'.detector.isListening
           /\ window'.timers = window.timers
           /\ window'.localStorage = window.localStorage
           /\ window'.app.calibrationSamples = <<>>
           /\ window'.app.calibrationStartTime = JSNull
           /\ \A v \in {in \in CalibrationPitchInputs(window') :
                           InGate(in.frequency, string6to1)} :
                  LET first == onPitchDetected(window', now', v.frequency, v.probability)
                      held == onPitchDetected(first, now' + calibrationDuration,
                                              v.frequency, v.probability)
                  IN  /\ first.app.calibrationSamples = <<v.frequency>>
                      /\ first.app.calibrationStartTime = Ms(now')
                      /\ held.app.currentCalibrationString = string6to1
                      /\ held.app.calibrationStatus = "Calibrated!"
                      /\ held.app.calibrationOffsets[string6to1]
                             = KLog2(1200, Div(v.frequency, OPEN_STRINGS[string6to1].frequency))

\* C20: a rejected calibration sample (wrong note) is recoverable: it leaves
\* isCalibrating true, leaves currentCalibrationString and every stored
\* calibration offset unchanged, does not stop the detector, and resets
\* calibrationSamples to empty and calibrationStartTime to null, so that a
\* later run of valid samples held for the full calibration duration still
\* completes the same string.
C20_RejectionRecoverable == [][C20_Step]_vars

\* a wrong note on a later string, the offset computed for an earlier string
\* still stored and the detector still listening
C20_Witness ==
    /\ Constructed
    /\ call.op = "onPitchDetected"
    /\ window.app.isCalibrating
    /\ window.app.currentCalibrationString < 6
    /\ ~InGate(call.d, window.app.currentCalibrationString)
    /\ window.app.calibrationStatus = "Wrong note detected, try again..."
    /\ window.app.calibrationSamples = <<>>
    /\ window.detector.isListening
    /\ \E s \in 1..6 : window.app.calibrationOffsets[s].t = "lin"
                       /\ window.app.calibrationOffsets[s].p # 0

\* the number of samples below f, and of samples not above f
CountBelow(samples, f) == Cardinality({i \in DOMAIN samples : LogLt(samples[i], f)})
CountUpTo(samples, f) == Cardinality({i \in DOMAIN samples : ~LogLt(f, samples[i])})

\* f is the k-th smallest of the samples (k from 1)
IsKthSmallest(samples, f, k) ==
    /\ \E i \in DOMAIN samples : samples[i] = f
    /\ CountBelow(samples, f) < k
    /\ CountUpTo(samples, f) >= k

\* 1200 * log2(f / expected) for the tabulated open frequency of string s
CentsFromOpen(f, s) == KLog2(1200, Div(f, OPEN_STRINGS[s].frequency))

\* this step is a pitch callback in which a string's calibration completes
CompletionStep ==
    /\ Constructed
    /\ call'.op = "onPitchDetected"
    /\ window.app.isCalibrating
    /\ window'.app.calibrationStatus = "Calibrated!"

\* the offset stored by a completion is that of the median sample; for an
\* even number of samples the median lies between the two middle samples,
\* strictly when they differ
C21_Step_Median ==
    CompletionStep =>
        LET samples == window'.app.calibrationSamples
            n == Len(samples)
            s == window.app.currentCalibrationString
            offset == window'.app.calibrationOffsets[s]
        IN  /\ (n % 2 = 1) =>
                   \E i \in DOMAIN samples :
                       /\ IsKthSmallest(samples, samples[i], (n + 1) \div 2)
                       /\ offset = CentsFromOpen(samples[i], s)
            /\ (n % 2 = 0) =>
                   \E i, j \in DOMAIN samples :
                       /\ IsKthSmallest(samples, samples[i], n \div 2)
                       /\ IsKthSmallest(samples, samples[j], (n \div 2) + 1)
                       /\ IF samples[i] = samples[j]
                          THEN offset = CentsFromOpen(samples[i], s)
                          ELSE /\ LinLt(CentsFromOpen(samples[i], s), offset)
                               /\ LinLt(offset, CentsFromOpen(samples[j], s))
            /\ \A other \in (1..6) \ {s} :
                   window'.app.calibrationOffsets[other] = window.app.calibrationOffsets[other]

C21_Step ==
    CompletionStep =>
        LET samples == window'.app.calibrationSamples
            s == window.app.currentCalibrationString
        IN  /\ samples = Append(window.app.calibrationSamples, call'.d)
            /\ \E i \in DOMAIN samples :
                   /\ IsKthSmallest(samples, samples[i], (Len(samples) \div 2) + 1)
                   /\ window'.app.calibrationOffsets[s] = CentsFromOpen(samples[i], s)
            /\ \A other \in (1..6) \ {s} :
                   window'.app.calibrationOffsets[other] = window.app.calibrationOffsets[other]

DetectionResult == [frequency |-> Hz440, probability |-> Lin(LinScale)]
NoDetectionResult == [frequency |-> Neg(0), probability |-> Lin(0)]
PassResults == {DetectionResult, NoDetectionResult}

\* result.frequency > 0 && result.probability >= this.yinProbabilityThreshold
Confident(result) ==
    /\ LogLt(Zero, result.frequency)
    /\ LinLeq(Lin((8 * LinScale) \div 10), result.probability)

\* detectPitch without the test of isListening
detectPitch_AlwaysRuns(w, t, result) ==
    [window |-> IF Confident(result)
                THEN [onPitchDetected(w, t, result.frequency, result.probability)
                          EXCEPT !.frames = @ + 1]
                ELSE [w EXCEPT !.frames = @ + 1],
     pass |-> TRUE,
     delivered |-> Confident(result)]

\* AudioPitchDetector.detectPitch, `result` being what yinDetect returns for
\* the buffer of this pass: the page afterwards, whether a pass was run (a
\* buffer requested and estimated) and whether onPitchDetected was called
detectPitch(w, t, result) ==
    IF ~w.detector.isListening
    THEN [window |-> w, pass |-> FALSE, delivered |-> FALSE]
    ELSE [window |-> IF Confident(result)
                     THEN [onPitchDetected(w, t, result.frequency, result.probability)
                               EXCEPT !.frames = @ + 1]
                     ELSE [w EXCEPT !.frames = @ + 1],
          pass |-> TRUE,
          delivered |-> Confident(result)]

\* start() from await getUserMedia to its return, for a call from outside the
\* trainer: on success detectPitch is called before start returns
startSettles(w, i, granted, t, result) ==
    LET settled == getUserMediaSettles(w, i, granted, 0)
    IN  IF granted /\ w.detector.audioContext # JSNull
        THEN detectPitch(settled, t, result)
        ELSE [window |-> settled, pass |-> FALSE, delivered |-> FALSE]

\* caps on the calls of start that wait and on the frame callbacks that wait
MaxWaitingStarts == 2
MaxFrames == 2

\* what the call record keeps of a call of the detector
\* (settled: getUserMedia has settled in this step; granted: it resolved)
DetectorCall(op, settled, granted, r) ==
    [op |-> op, d |-> JSUndefined, t |-> JSUndefined,
     c |-> [settled |-> settled, granted |-> granted, pass |-> r.pass,
            delivered |-> r.delivered, before |-> window.detector],
     ret |-> JSUndefined]

NoPass(w) == [window |-> w, pass |-> FALSE, delivered |-> FALSE]

\* the page of a browser with or without navigator.mediaDevices
OpenDetectorPage ==
    /\ pc = "ready"
    /\ ~Constructed
    /\ \E mediaDevices \in BOOLEAN :
           window' = [TrainerConstructed(EmptyStorage) EXCEPT !.mediaDevices = mediaDevices]
    /\ call' = NoCall
    /\ UNCHANGED now
    /\ PageUnchanged

\* detector.start() is called
DetectorStart ==
    /\ Constructed
    /\ Len(window.starting) < MaxWaitingStarts
    /\ window' = detectorStart(window, "detector", 0)
    /\ call' = DetectorCall("start", FALSE, FALSE, NoPass(window))
    /\ UNCHANGED now
    /\ PageUnchanged

\* getUserMedia resolves or rejects and the call of start returns
DetectorStartSettles ==
    /\ Constructed
    /\ window.frames < MaxFrames
    /\ \E i \in DOMAIN window.starting : \E granted \in BOOLEAN :
       \E result \in PassResults :
       \E r \in {startSettles(window, i, granted, now, result)} :
           /\ window' = r.window
           /\ call' = DetectorCall("start", TRUE, granted, r)
    /\ UNCHANGED now
    /\ PageUnchanged

\* detector.stop() is called
DetectorStop ==
    /\ Constructed
    /\ window' = detectorStop(window)
    /\ call' = DetectorCall("stop", FALSE, FALSE, NoPass(window))
    /\ UNCHANGED now
    /\ PageUnchanged

\* an animation frame: one pending callback of detectPitch runs
FrameFires ==
    /\ Constructed
    /\ window.frames > 0
    /\ \E result \in PassResults :
       \E r \in {detectPitch([window EXCEPT !.frames = @ - 1], now, result)} :
           /\ window' = r.window
           /\ call' = DetectorCall("detectPitch", FALSE, FALSE, r)
    /\ UNCHANGED now
    /\ PageUnchanged

\* the detector driven from outside the trainer
NextMicrophone ==
    \/ GenerateFretboardStep
    \/ GenerateFretboardReturn
    \/ OpenDetectorPage
    \/ DetectorStart
    \/ DetectorStartSettles
    \/ DetectorStop
    \/ FrameFires

SpecMicrophone == Init /\ [][NextMicrophone]_vars

\* ---- properties of the detection loop ----
\* a stop leaves nothing held, a second stop changes nothing more, and a
\* start that is granted the microphone afterwards listens again
C22_Step ==
    (Constructed /\ call'.op = "stop")
    => /\ ~window'.detector.isListening
       /\ window'.detector.mediaStream = JSNull
       /\ window'.detector.audioContext = JSNull
       /\ detectorStop(window') = window'
       /\ window'.mediaDevices =>
              LET called == detectorStart(window', "detector", 0)
                  r == startSettles(called, Len(called.starting), TRUE, now,
                                    NoDetectionResult)
              IN  /\ r.window.returned = "success"
                  /\ r.window.detector.isListening
                  /\ r.window.detector.audioContext # JSNull
                  /\ r.window.detector.mediaStream # JSNull

\* C22: after stop() returns, from any detector state (never started,
\* listening, already stopped), isListening is false and mediaStream and
\* audioContext are null; calling stop() repeatedly has the same result as
\* calling it once; a start() after stop() makes the detector listening again.
C22_StopReleases == [][C22_Step]_vars

\* stop() was called on a listening detector whose frame callback is pending
C22_Witness ==
    /\ Constructed
    /\ call.op = "stop"
    /\ call.c.before.isListening
    /\ call.c.before.audioContext # JSNull
    /\ ~window.detector.isListening
    /\ window.detector.audioContext = JSNull
    /\ window.frames > 0

\* a call of start on a listening detector
C23_Step ==
    (/\ Constructed
     /\ call'.op = "start"
     /\ ~call'.c.settled
     /\ window.detector.isListening)
    => /\ window'.returned = "success"
       /\ window'.detector = window.detector
       /\ window'.starting = window.starting
       /\ window'.frames = window.frames
       /\ window'.app = window.app
       /\ window'.timers = window.timers

\* C23: start() called while the detector is already listening returns
\* {success: true} and changes nothing: no new audio context or media stream
\* is created, the existing ones are kept, and no additional detection loop
\* is started.
C23_StartWhileListening == [][C23_Step]_vars

C23_Witness ==
    /\ Constructed
    /\ call.op = "start"
    /\ ~call.c.settled
    /\ call.c.before.isListening
    /\ window.returned = "success"
    /\ window.detector.isListening
    /\ window.frames = 1
    /\ window.starting = <<>>

\* in this step a call of start returns a failure
FailedStart ==
    /\ call'.op = "start"
    /\ call'.c.settled \/ (~window.detector.isListening /\ ~window.mediaDevices)
    /\ window'.returned = "failure"

\* C24: when microphone access is unavailable or getUserMedia
\* rejects, start() resolves to {success: false, error}, leaves isListening
\* false and starts no detection loop.
C24_Step_LeavesFalse ==
    (Constructed /\ FailedStart) => ~window'.detector.isListening

C24_FailedStartNotListening == [][C24_Step_LeavesFalse]_vars

\* while the detector does not listen a frame callback returns at once, and
\* only a start that succeeds makes it listen; a stop makes it not listen
C25_Step ==
    Constructed =>
        /\ (call'.op = "stop") => ~window'.detector.isListening
        /\ ~window.detector.isListening =>
               /\ (call'.op = "detectPitch") =>
                      /\ ~call'.c.pass
                      /\ ~call'.c.delivered
                      /\ window'.frames = window.frames - 1
                      /\ window'.app = window.app
               /\ window'.detector.isListening =>
                      /\ call'.op = "start"
                      /\ call'.c.settled
                      /\ window'.returned = "success"

\* C25: after stop() has been called and until the next successful start(),
\* the detector never invokes onPitchDetected and never requests another
\* buffer, even if a requestAnimationFrame callback scheduled before the stop
\* fires afterwards.
C25_NoPassAfterStop == [][C25_Step]_vars

\* the frame callback left by a stopped detector has fired and returned
C25_Witness ==
    /\ Constructed
    /\ call.op = "detectPitch"
    /\ ~call.c.pass
    /\ ~call.c.before.isListening
    /\ call.c.before.audioContext = JSNull
    /\ ~window.detector.isListening
    /\ window.frames = 0

\* C26: for one detector, across every interleaving of start(), stop() and
\* animation-frame callbacks, at most one detection loop is alive: at most
\* one pending frame callback that will run an estimation pass exists at any
\* time.
C26_OneLoop ==
    Constructed => (window.detector.isListening => window.frames <= 1)

\* ---- FretboardTrainer: the methods of a session, called one by one ----
\* what a step of the session did: whether getUserMedia settled in it and how,
\* and isRunning before it
SessionCall(op, settled, granted) ==
    [op |-> op, d |-> JSUndefined, t |-> JSUndefined,
     c |-> [settled |-> settled, granted |-> granted,
            isRunning |-> window.app.isRunning],
     ret |-> JSUndefined]

\* a click on the start button: toggleSession.  A start that waits for
\* getUserMedia leaves isRunning false, so the button starts again
ToggleSession ==
    /\ Constructed
    /\ window.app.isRunning \/ Len(window.starting) < MaxWaitingStarts
    /\ IF window.app.isRunning
       THEN /\ window' = stopSession(window)
            /\ call' = SessionCall("stopSession", FALSE, FALSE)
       ELSE /\ \E k \in ChallengeOutcomes : window' = startSession(window, k)
            /\ call' = SessionCall("startSession", FALSE, FALSE)
    /\ UNCHANGED now
    /\ PageUnchanged

\* getUserMedia settles for a startSession that waits
StartSessionSettles ==
    /\ Constructed
    /\ \E i \in DOMAIN window.starting : \E granted \in BOOLEAN :
       \E k \in ChallengeOutcomes :
           /\ window' = getUserMediaSettles(window, i, granted, k)
           /\ call' = SessionCall("startSession", TRUE, granted)
    /\ UNCHANGED now
    /\ PageUnchanged

\* detector.onPitchDetected is called, by the detector or directly
DeliverPitch ==
    /\ Constructed
    /\ window.app.score < MaxScore
    /\ Len(window.timers) < MaxTimers
    /\ \E in \in SessionPitchInputs(window) :
           /\ window' = onPitchDetected(window, now, in.frequency, in.probability)
           /\ call' = SessionCall("onPitchDetected", FALSE, FALSE)
    /\ UNCHANGED now
    /\ PageUnchanged

\* handleCorrect is called directly
CallHandleCorrect ==
    /\ Constructed
    /\ window.app.score < MaxScore
    /\ Len(window.timers) < MaxTimers
    /\ window' = handleCorrect(window, now)
    /\ call' = SessionCall("handleCorrect", FALSE, FALSE)
    /\ UNCHANGED now
    /\ PageUnchanged

\* the time of a success display passes
GameTick == Tick({successDisplayDuration}, MaxSessionTime)

NextGame ==
    \/ GenerateFretboardStep
    \/ GenerateFretboardReturn
    \/ OpenCalibratedPage
    \/ ToggleSession
    \/ StartSessionSettles
    \/ DeliverPitch
    \/ CallHandleCorrect
    \/ TimerFires
    \/ GameTick

SpecGame == Init /\ [][NextGame]_vars

\* ---- properties of a session ----
\* the start of the detector that a step of startSession waited for succeeds
StartSucceeds ==
    /\ call'.op = "startSession"
    /\ \/ ~call'.c.settled /\ window.detector.isListening
       \/ call'.c.settled /\ call'.c.granted /\ window.detector.audioContext # JSNull

StartFails ==
    /\ call'.op = "startSession"
    /\ call'.c.settled
    /\ ~(call'.c.granted /\ window.detector.audioContext # JSNull)

ChallengeOfFretboard(c) ==
    \E i \in DOMAIN FRETBOARD : c = FRETBOARD[i]

C27_Step ==
    Constructed =>
        /\ StartSucceeds =>
               /\ window'.app.isRunning
               /\ window'.app.score = 0
               /\ window'.app.correctStreak = 0
               /\ ChallengeOfFretboard(window'.app.currentChallenge)
        /\ StartFails =>
               /\ ~window'.app.isRunning
               /\ window'.app.score = window.app.score
               /\ window'.app.correctStreak = window.app.correctStreak
               /\ window'.app.currentChallenge = window.app.currentChallenge
               /\ window'.app.statusIndicator = "error"
        /\ (call'.op = "stopSession") =>
               /\ ~window'.app.isRunning
               /\ window'.detector = [isListening |-> FALSE, audioContext |-> JSNull,
                                      mediaStream |-> JSNull]

\* C27: a startSession whose detector start succeeds sets isRunning to true,
\* resets score and correctStreak to 0 and sets a current challenge taken from
\* FRETBOARD; a startSession whose detector start fails leaves isRunning
\* false, leaves score, correctStreak and currentChallenge unchanged and shows
\* the error; stopSession always sets isRunning to false and stops the
\* detector.
C27_StartStopSession == [][C27_Step]_vars

\* a call of handleCorrect scores once and clears the challenge while the
\* session runs, and leaves the page as it was while it does not
C28_Step ==
    (Constructed /\ call'.op = "handleCorrect")
    => IF window.app.isRunning
       THEN /\ window'.app.score = window.app.score + 1
            /\ window'.app.correctStreak = window.app.correctStreak + 1
            /\ window'.app.currentChallenge = JSNull
       ELSE /\ window'.app.score = window.app.score
            /\ window'.app.correctStreak = window.app.correctStreak
            /\ window'.app.currentChallenge = window.app.currentChallenge
            /\ window'.timers = window.timers
            /\ window' = window

\* C28: handleCorrect in a running session increases score by exactly 1 and
\* correctStreak by exactly 1 and sets currentChallenge to null; handleCorrect
\* when the session is not running changes nothing (score, streak and
\* challenge unchanged, no timer scheduled).
C28_HandleCorrect == [][C28_Step]_vars

\* handleCorrect scored once in a session, the session was stopped, and
\* handleCorrect was called again
C28_Witness ==
    /\ Constructed
    /\ call.op = "handleCorrect"
    /\ ~call.c.isRunning
    /\ ~window.app.isRunning
    /\ window.app.score = 1
    /\ window.app.correctStreak = 1
    /\ window.app.currentChallenge = JSNull
    /\ Len(window.timers) = 1

\* a detection outside a running session with a challenge
C29_Step ==
    (/\ Constructed
     /\ call'.op = "onPitchDetected"
     /\ ~window.app.isCalibrating
     /\ ~window.app.isRunning \/ window.app.currentChallenge = JSNull)
    => /\ window'.app.score = window.app.score
       /\ window'.app.correctStreak = window.app.correctStreak
       /\ window'.app.correctStartTime = window.app.correctStartTime
       /\ window'.app.currentChallenge = window.app.currentChallenge
       /\ window'.app.isRunning = window.app.isRunning
       /\ window'.timers = window.timers

\* C29: a pitch detection delivered while the session is not running, or
\* while currentChallenge is null, changes no game state: score,
\* correctStreak, correctStartTime and currentChallenge are all unchanged.
C29_DetectionOutsideChallenge == [][C29_Step]_vars

\* a detection was delivered to a stopped session that still holds its last
\* challenge and the start time of a match
C29_Witness ==
    /\ Constructed
    /\ call.op = "onPitchDetected"
    /\ ~call.c.isRunning
    /\ ~window.app.isRunning
    /\ window.app.currentChallenge # JSNull
    /\ window.app.correctStartTime # JSNull

\* the hold: a detection of a running session with a challenge
C30_Step ==
    Constructed =>
        LET detection == call'.op = "onPitchDetected" /\ ~window.app.isCalibrating
            before == window.app
            after == window'.app
        IN  /\ (detection /\ before.isRunning /\ before.currentChallenge # JSNull) =>
                   LET match == WithinTolerance(window, call'.d)
                       held == /\ before.correctStartTime # JSNull
                               /\ now - before.correctStartTime.p >= detectionHoldTime
                   IN  /\ (match /\ before.correctStartTime = JSNull) =>
                               /\ after.correctStartTime = Ms(now)
                               /\ after.score = before.score
                               /\ after.currentChallenge = before.currentChallenge
                       /\ ~match =>
                               /\ after.correctStartTime = JSNull
                               /\ after.score = before.score
                               /\ after.currentChallenge = before.currentChallenge
                       /\ (after.score # before.score) <=> (match /\ held)
                       /\ (after.score # before.score) =>
                               /\ after.score = before.score + 1
                               /\ after.currentChallenge = JSNull
            /\ (detection /\ after.score # before.score) =>
                   before.isRunning /\ before.currentChallenge # JSNull
            \* only a matching detection sets correctStartTime
            /\ (after.correctStartTime # JSNull
                /\ after.correctStartTime # before.correctStartTime) =>
                   /\ detection
                   /\ before.isRunning
                   /\ before.currentChallenge # JSNull
                   /\ WithinTolerance(window, call'.d)
                   /\ before.correctStartTime = JSNull
                   /\ after.correctStartTime = Ms(now)
            \* and a new challenge clears it
            /\ (after.correctStartTime # JSNull) =>
                   \/ after.currentChallenge = before.currentChallenge
                   \/ detection /\ after.currentChallenge = JSNull

\* C30: in a running session with a current challenge: the first matching
\* detection sets correctStartTime and does not score; a non-matching
\* detection resets correctStartTime to null; pitch detection triggers
\* handleCorrect only on a matching detection that arrives at least
\* detectionHoldTime (150 ms) after the matching detection that set
\* correctStartTime, with no non-matching detection and no change of challenge
\* in between.  The score therefore never increases from a single matching
\* detection.
C30_HoldTime == [][C30_Step]_vars

\* a match held for detectionHoldTime has scored
C30_Witness ==
    /\ Constructed
    /\ call.op = "onPitchDetected"
    /\ window.app.isRunning
    /\ window.app.score = 1
    /\ window.app.currentChallenge = JSNull
    /\ window.app.correctStartTime # JSNull
    /\ now - window.app.correctStartTime.p = detectionHoldTime

\* ---- FretboardTrainer: keyboard mode ----
toggleMode(w) ==
    [(IF w.app.isRunning THEN stopSession(w) ELSE w)
        EXCEPT !.app.mode = IF @ = "audio" THEN "keyboard" ELSE "audio"]

\* the values of e.code that are pressed: the four that handleKeyPress names
\* and one that it does not
KeyCodes == {"Space", "Enter", "KeyS", "Escape", "KeyA"}

\* handleKeyPress without the test of the mode
handleKeyPress_AnyMode(w, t, code, k) ==
    IF ~w.app.isRunning \/ w.app.currentChallenge = JSNull THEN w
    ELSE IF code \in {"Space", "Enter"} THEN handleCorrect(w, t)
    ELSE IF code \in {"KeyS", "Escape"} THEN nextChallenge(w, k)
    ELSE w

\* k is the outcome of Math.random when the key skips to a new challenge
handleKeyPress(w, t, code, k) ==
    IF ~w.app.isRunning \/ w.app.currentChallenge = JSNull THEN w
    ELSE IF w.app.mode = "keyboard"
    THEN IF code \in {"Space", "Enter"} THEN handleCorrect(w, t)
         ELSE IF code \in {"KeyS", "Escape"} THEN nextChallenge(w, k)
         ELSE w
    ELSE w

\* a click on the mode button
ToggleMode ==
    /\ Constructed
    /\ window' = toggleMode(window)
    /\ call' = SessionCall("toggleMode", FALSE, FALSE)
    /\ UNCHANGED now
    /\ PageUnchanged

\* a keydown on the document
KeyDown ==
    /\ Constructed
    /\ window.app.score < MaxScore
    /\ Len(window.timers) < MaxTimers
    /\ \E code \in KeyCodes : \E k \in ChallengeOutcomes :
           /\ window' = handleKeyPress(window, now, code, k)
           /\ call' = [op |-> "handleKeyPress", d |-> JSUndefined, t |-> JSUndefined,
                       c |-> [code |-> code, isRunning |-> window.app.isRunning,
                              mode |-> window.app.mode],
                       ret |-> JSUndefined]
    /\ UNCHANGED now
    /\ PageUnchanged

\* a session in either mode, by the buttons, the keys and the microphone
NextKeyboard ==
    \/ GenerateFretboardStep
    \/ GenerateFretboardReturn
    \/ OpenCalibratedPage
    \/ ToggleMode
    \/ ToggleSession
    \/ StartSessionSettles
    \/ PitchDetected
    \/ KeyDown
    \/ TimerFires
    \/ GameTick

SpecKeyboard == Init /\ [][NextKeyboard]_vars

\* ---- properties of keyboard mode and of the success display ----
\* a timer comes due and its callback runs in this step
TimerFired ==
    /\ call'.op = "none"
    /\ Len(window'.timers) < Len(window.timers)

C31_Step ==
    Constructed =>
        /\ (/\ call'.op = "startSession"
            /\ ~call'.c.settled
            /\ window.app.mode = "keyboard") =>
               /\ window'.app.isRunning
               /\ window'.app.score = 0
               /\ window'.app.correctStreak = 0
               /\ ChallengeOfFretboard(window'.app.currentChallenge)
               /\ window'.detector = window.detector
               /\ window'.starting = window.starting
               /\ window'.frames = window.frames
        /\ (call'.op = "handleKeyPress") =>
               IF /\ window.app.isRunning
                  /\ window.app.currentChallenge # JSNull
                  /\ window.app.mode = "keyboard"
               THEN /\ call'.c.code \in {"Space", "Enter"} =>
                        /\ window'.app.score = window.app.score + 1
                        /\ window'.app.correctStreak = window.app.correctStreak + 1
                        /\ window'.app.currentChallenge = JSNull
                        /\ window' = handleCorrect(window, now)
                    /\ call'.c.code = "KeyS" =>
                        /\ ChallengeOfFretboard(window'.app.currentChallenge)
                        /\ window'.app.score = window.app.score
                        /\ window'.app.correctStreak = window.app.correctStreak
                        /\ window'.timers = window.timers
               ELSE window' = window

\* C31: keyboard mode needs no microphone: startSession in keyboard mode never
\* calls detector.start and always succeeds; with a running session and a
\* current challenge in keyboard mode, Space or Enter scores the challenge
\* (handleCorrect) and S advances to a new challenge leaving score and
\* correctStreak unchanged; in audio mode, and whenever the session is not
\* running or no challenge is current, key presses change no game state.
C31_KeyboardMode == [][C31_Step]_vars

\* Space has scored in a keyboard session that never asked for the microphone
C31_Witness ==
    /\ Constructed
    /\ call.op = "handleKeyPress"
    /\ call.c.code = "Space"
    /\ window.app.mode = "keyboard"
    /\ window.app.isRunning
    /\ window.app.score = 1
    /\ window.app.currentChallenge = JSNull
    /\ window.detector.audioContext = JSNull
    /\ window.starting = <<>>

\* every success timer is due no later than successDisplayDuration from now
TimersWithinDisplay ==
    \A i \in DOMAIN window.timers :
        /\ window.timers[i].callback = "nextChallenge"
        /\ window.timers[i].due <= now + successDisplayDuration

C32_Step ==
    Constructed =>
        LET before == window.app
            after == window'.app
        IN  \* no detection and no key scores while no challenge is current
            /\ (/\ call'.op \in {"onPitchDetected", "handleKeyPress"}
                /\ before.currentChallenge = JSNull) =>
                   /\ after.score = before.score
                   /\ after.currentChallenge = JSNull
            \* a detection or a key scores at most 1, clears the challenge and
            \* sets the timer of the success display
            /\ (/\ call'.op \in {"onPitchDetected", "handleKeyPress"}
                /\ after.score # before.score) =>
                   /\ before.currentChallenge # JSNull
                   /\ after.score = before.score + 1
                   /\ after.currentChallenge = JSNull
                   /\ window'.timers =
                          InsertTimer(window.timers,
                                      [due |-> now + successDisplayDuration,
                                       callback |-> "nextChallenge"])
            \* only nextChallenge, from the timer or from startSession, ends
            \* the time without a challenge
            /\ (before.currentChallenge = JSNull /\ after.currentChallenge # JSNull) =>
                   \/ TimerFired /\ before.isRunning
                   \/ call'.op = "startSession"
            \* the timer sets the next challenge if the session runs
            /\ TimerFired =>
                   /\ Head(window.timers).due <= now
                   /\ IF before.isRunning
                      THEN /\ ChallengeOfFretboard(after.currentChallenge)
                           /\ after.correctStartTime = JSNull
                           /\ after.score = before.score
                      ELSE after = before
            /\ TimersWithinDisplay'

\* C32: between a handleCorrect and the next nextChallenge, currentChallenge
\* is null and neither pitch detections nor key presses change the score, so
\* one challenge adds at most 1 to the score; the next challenge is set after
\* successDisplayDuration (800 ms) if the session is still running at that
\* time, and is not set if the session was stopped and stays stopped.
C32_SuccessDisplay == [][C32_Step]_vars

\* the success timer has fired on a session that was stopped after it scored
C32_Witness ==
    /\ Constructed
    /\ call.op = "none"
    /\ now = successDisplayDuration
    /\ window.timers = <<>>
    /\ ~window.app.isRunning
    /\ window.app.score = 1
    /\ window.app.currentChallenge = JSNull

\* a timer that fires while a challenge is current was set before that
\* challenge, by a handleCorrect of an earlier start of the session
C33_Step ==
    (Constructed /\ TimerFired /\ window.app.currentChallenge # JSNull)
    => /\ window'.app.currentChallenge = window.app.currentChallenge
       /\ window'.app.correctStartTime = window.app.correctStartTime

\* C33: a success-display timer scheduled by handleCorrect in one session
\* never affects a later session: if the session is stopped and started again
\* before the 800 ms timer fires, the timer does not replace the new session's
\* current challenge and does not reset its correctStartTime.
C33_TimerOfEarlierSession == [][C33_Step]_vars

\* ---- properties of the detector's resources ----
\* C34: whenever no start() is in progress, a detector that is not listening
\* holds no audio resources: isListening = false implies audioContext = null
\* and mediaStream = null.  This holds initially, after stop(), and after a
\* start() that failed because getUserMedia rejected.
C34_NoResourcesHeld ==
    (Constructed /\ window.starting = <<>> /\ ~window.detector.isListening)
    => /\ window.detector.audioContext = JSNull
       /\ window.detector.mediaStream = JSNull

\* ---- FretboardTrainer: sessions and calibrations on one page ----
\* audio mode throughout: toggleMode stops a running session before it changes
\* the mode, and a keyboard session does not use the detector
NextTrainer ==
    \/ GenerateFretboardStep
    \/ GenerateFretboardReturn
    \/ OpenCalibratedPage
    \/ StartSession
    \/ StopSession
    \/ StartCalibration
    \/ StartResolves
    \/ PitchDetected
    \/ SkipCalibrationString
    \/ CancelCalibration
    \/ TimerFires
    \/ CalibrationTick

SpecTrainer == Init /\ [][NextTrainer]_vars

\* C35: whenever a session is running in audio mode (isRunning true, mode
\* 'audio'), the pitch detector is listening; this holds across every
\* interleaving of startSession, stopSession, toggleMode, startCalibration,
\* cancelCalibration, the calibration timers and finishCalibration.
C35_RunningSessionListens ==
    (Constructed /\ window.app.isRunning /\ window.app.mode = "audio")
    => window.detector.isListening

\* ---- properties of a calibration run ----
\* the calibration moves on from a string only to the next lower one and only
\* when an offset has been written for it, and it is finished and saved only
\* from string 1 with all six offsets written
C36_Step ==
    Constructed =>
        LET before == window.app
            after == window'.app
        IN  /\ (/\ before.isCalibrating
                /\ after.isCalibrating
                /\ after.currentCalibrationString # before.currentCalibrationString) =>
                   /\ after.currentCalibrationString = before.currentCalibrationString - 1
                   /\ after.calibrationOffsets[before.currentCalibrationString]
                          # JSUndefined
            /\ (window'.localStorage # window.localStorage) =>
                   /\ before.isCalibrating
                   /\ before.currentCalibrationString = 1
                   /\ \A s \in 1..6 : after.calibrationOffsets[s] # JSUndefined

\* C36: calibration visits the strings in the order 6, 5, 4, 3, 2, 1 and
\* advances by exactly one string per completed or skipped string: pitch
\* samples that arrive during the 800 ms delay after a string has completed,
\* and a skip pressed during that delay, cause no additional advance, so no
\* string is passed over without having been calibrated or explicitly
\* skipped, and finishCalibration runs exactly once, after string 1.
C36_OneAdvancePerString == [][C36_Step]_vars

\* nothing has been saved since the page was opened: no calibration has been
\* finished, so a calibration that is over was cancelled
NeverFinished == window.localStorage = StoredVisit

\* a page whose calibrations were all cancelled saves nothing while none runs
C37_Step ==
    (Constructed /\ ~window.app.isCalibrating /\ NeverFinished)
    => window'.localStorage = window.localStorage

\* C37: after cancelCalibration, no calibration data is written to persistent
\* storage and finishCalibration does not run until a new startCalibration,
\* even when a next-string timer scheduled by completeStringCalibration is
\* still pending at the moment of the cancel.
C37_CancelSavesNothing == [][C37_Step]_vars

\* C38: a calibration that is started and then cancelled leaves the
\* calibration offsets used for matching equal to what they were before
\* startCalibration: the in-memory calibrationOffsets after cancelCalibration
\* equal the offsets in effect before the calibration began (and equal the
\* persisted ones).
C38_CancelRestoresOffsets ==
    (Constructed /\ ~window.app.isCalibrating /\ NeverFinished)
    => window.app.calibrationOffsets = loadCalibration(window.localStorage)

\* an offset of -100 to +100 cents
WithinSemitone(offset) ==
    /\ offset.t = "lin"
    /\ LinLeq(Lin((0 - 100) * LinScale), offset)
    /\ LinLeq(offset, Lin(100 * LinScale))

\* an offset that a step changes is cleared by startCalibration or is written
\* within a semitone; a completion has the sample of its detection at least
C39_Step ==
    Constructed =>
        /\ \A s \in 1..6 :
               (window'.app.calibrationOffsets[s] # window.app.calibrationOffsets[s]) =>
                   \/ window'.app.calibrationOffsets = NoOffsets
                   \/ /\ window.app.isCalibrating
                      /\ s = window.app.currentCalibrationString
                      /\ WithinSemitone(window'.app.calibrationOffsets[s])
        /\ CompletionStep =>
               /\ window'.app.calibrationSamples # <<>>
               /\ WithinSemitone(
                      window'.app.calibrationOffsets[window.app.currentCalibrationString])

\* C39: every offset written to calibrationOffsets by a calibration run (by
\* completion or by skip) is between -100 and +100 cents inclusive, after any
\* sequence of pitch samples, rejections, skips and completions; a completion
\* never runs with an empty sample set.
C39_OffsetsWithinSemitone == [][C39_Step]_vars

\* a string has completed with the offset at the lower edge of the gate
C39_Witness ==
    /\ Constructed
    /\ call.op = "onPitchDetected"
    /\ window.app.isCalibrating
    /\ window.app.calibrationStatus = "Calibrated!"
    /\ window.app.calibrationOffsets[window.app.currentCalibrationString]
           = Lin((0 - 100) * LinScale)

\* ---- the confidence of a detection ----
\* the probability of a result of yinDetect as onPitchDetected receives it
ProbabilityDelivered(probability) ==
    Lin((probability.p * LinScale) \div probability.q)

\* C40: every detection returned by yinDetect (frequency > 0) has probability
\* strictly greater than 1 - yinThreshold (0.85 with the default threshold
\* 0.15) and at most 1; therefore the confidence gate probability >=
\* yinProbabilityThreshold (0.8) in detectPitch, and the probability < 0.8
\* check in calibration, never reject a detection that yinDetect returned.
C40_DetectionsPassTheGates ==
    (/\ call.op = "yinDetect"
     /\ call.ret.frequency.t = "rat"
     /\ call.ret.frequency.p > 0)
    => LET probability == call.ret.probability
       IN  /\ call.c.exit = "pitch"
           /\ 100 * probability.p > 85 * probability.q
           /\ probability.p <= probability.q
           /\ LinLeq(Lin((8 * LinScale) \div 10), ProbabilityDelivered(probability))
           /\ ~BelowConfidence(ProbabilityDelivered(probability))

\* a detection whose lag has d' above 0, so that its probability is under 1
C40_Witness ==
    /\ call.op = "yinDetect"
    /\ call.c.exit = "pitch"
    /\ call.ret.frequency.p > 0
    /\ call.ret.probability.p < call.ret.probability.q
    /\ 100 * call.ret.probability.p > 85 * call.ret.probability.q

====
